---- MODULE Spec2Model ----
(***************************************************************************)
(* Agent-supervision core of the PIA Request Automation System:            *)
(*   backend/app/services/agents/base_agent.py    (Worker / BaseAgent)     *)
(*   backend/app/services/agents/orchestrator.py  (Supervisor)             *)
(*                                                                         *)
(* asyncio is cooperative: a coroutine runs without interruption from one  *)
(* suspension point (a real await) to the next.  Every action below is one *)
(* such uninterrupted stretch of one task.  A timeout or a sleep is a      *)
(* suspension point whose end is a nondeterministic choice.                *)
(*                                                                         *)
(*   backend/app/services/agents/event_bus.py     (Event Bus)              *)
(*                                                                         *)
(* In the Worker and Supervisor specifications the events published are    *)
(* counted per source; the bus queue (capacity 10000) is never saturated   *)
(* by the bounded number of events there, so publish does not suspend and  *)
(* BaseAgent._set_state is a single uninterrupted stretch.  The Event Bus  *)
(* itself is modelled by the bus_ variables and its own specifications.    *)
(***************************************************************************)
EXTENDS Integers, Sequences, FiniteSets, TLC

(* ---------------------------- bounds ----------------------------------- *)
\* task slots per Worker: run/heartbeat loop pairs that can coexist
MaxTasks == 2
\* executions of the unit of work one Worker may begin (metrics.total_runs)
MaxRuns == 2
\* AgentError events counted per Worker
MaxErrorEvents == 3
\* largest max_retries drawn for a Retry Policy
MaxRetriesBound == 2
\* health-check loop tasks of the Supervisor that can coexist
MaxHealth == 2
\* system Error events counted per Worker name
MaxSysErrors == 2
\* largest max_restart_attempts drawn for a Supervisor
MaxRestartBound == 1
\* events constructed by publish / publish_sync calls
MaxEvents == 2
\* events constructed by publish calls made inside subscriber callbacks
MaxCallbackEvents == 1
\* max_queue_size given to EventBus(...) (default 10000)
MaxQueueSize == 1
\* EventBus._max_history_size (1000 in the code), scaled down
MaxHistorySize == 2
\* size of the error ring of a Worker (100 in the code), scaled down
MaxErrorRing == 2

Workers == {"w1", "w2"}

\* AgentState, base_agent.py:18-28
AgentState ==
  {"idle", "starting", "running", "paused", "stopping", "stopped", "error", "recovering"}

VARIABLES
  retry_config,     \* RetryConfig of the Workers (immutable after Init)
  state,            \* BaseAgent._state
  shutdown_event,   \* BaseAgent._shutdown_event is set
  pause_event,      \* BaseAgent._pause_event is set
  cur_task,         \* slot referenced by _run_task/_heartbeat_task, 0 = None
  run_loop,         \* the _run_loop tasks of a Worker, by slot
  hb_loop,          \* the _heartbeat_loop tasks of a Worker, by slot
  last_heartbeat,   \* state carried by the Worker's latest AGENT_HEARTBEAT event
  call,             \* start()/stop() coroutines in flight, by caller
  total_runs,       \* metrics.total_runs
  error_events,     \* AGENT_ERROR events published with source = Worker,
                    \* counted up to MaxErrorEvents
  errors            \* metrics.errors: the kinds of the error records kept

wvars == <<retry_config, state, shutdown_event, pause_event, cur_task, run_loop,
           hb_loop, last_heartbeat, call, total_runs, error_events, errors>>

(* supervisor (AgentOrchestrator) state *)
VARIABLES
  sup_config,       \* auto_restart_agents, max_restart_attempts (immutable)
  sup_state,        \* AgentOrchestrator._state
  sup_shutdown,     \* AgentOrchestrator._shutdown_event is set
  agents_created,   \* _agents holds the fixed set of Workers
  restart_counts,   \* _agent_restart_counts
  health,           \* the _health_check_loop tasks, by slot
  cur_health,       \* slot referenced by _health_check_task, 0 = None
  api,              \* the Supervisor start()/stop() coroutine in flight
  sys_error_events, \* ERROR events published with source "orchestrator", per agent_name
  restart_attempts, \* restart attempts begun per Worker (observer)
  sup_status,       \* what the last get_status() call returned
  forever           \* where the run_forever() coroutine stands

svars == <<sup_config, sup_state, sup_shutdown, agents_created, restart_counts,
           health, cur_health, api, sys_error_events, restart_attempts, sup_status, forever>>

(* event bus (EventBus) state *)
VARIABLES
  bus_subs,         \* _subscriptions, a dict: the Subscriptions in insertion order
  bus_events,       \* every Event constructed so far; an event's id is its index
  bus_queue,        \* _event_queue: ids of the queued events, oldest first
  bus_enq,          \* ids of the events accepted into the queue, in enqueue order
  bus_putters,      \* ids of the events whose publish is suspended in Queue.put
  bus_rejected,     \* ids of the events whose publish_sync raised
  bus_running,      \* _running
  bus_proc,         \* the _event_processor task
  bus_stop,         \* the stop() coroutine in flight, and what the last one saw
  bus_history,      \* _event_history: ids, oldest first
  bus_inv,          \* per event and subscriber id: the callback invocation
  bus_delivered,    \* per event and subscriber id: times the callback was entered
  bus_unsub,        \* per subscriber id: events constructed when unsubscribe()
                    \* last returned True, -1 once subscribed again or never
  bus_query         \* the latest get_event_history call: arguments and result

bvars == <<bus_subs, bus_events, bus_queue, bus_enq, bus_putters, bus_rejected,
           bus_running, bus_proc, bus_stop, bus_history, bus_inv, bus_delivered,
           bus_unsub, bus_query>>
\* the bus without its running flag and its processor task
busrest == <<bus_subs, bus_events, bus_queue, bus_enq, bus_putters, bus_rejected, bus_stop,
             bus_history, bus_inv, bus_delivered, bus_unsub, bus_query>>

vars == <<wvars, svars, bvars>>

(* ------------------------- Event Bus: data ----------------------------- *)
Subs == {"s1", "s2"}
\* EventType members and event sources used by the models
Kinds == {"k1", "k2"}
Sources == {"a", "b"}
\* correlation ids; "-" stands for None
Corrs == {"-", "c1"}
EventIds == 1..(MaxEvents + MaxCallbackEvents)

\* the callback of (event, subscriber): not invoked, task created, entered and
\* suspended, returned, raised, cancelled
InvStates == {"none", "created", "running", "putting", "done", "raised", "cancelled"}

NoProc == [pc |-> "none", ev |-> 0]
NoStop == [pc |-> "none", drain |-> FALSE, ev |-> 0, seen |-> {}, left |-> {}]
NoQuery == [kind |-> "-", source |-> "-", corr |-> "-", limit |-> -1, result |-> <<>>]

\* EventBus.__init__, event_bus.py:107-114
BusInit ==
  /\ bus_subs = <<>>
  /\ bus_events = <<>>
  /\ bus_queue = <<>>
  /\ bus_enq = <<>>
  /\ bus_putters = {}
  /\ bus_rejected = {}
  /\ bus_running = FALSE
  /\ bus_proc = NoProc
  /\ bus_stop = NoStop
  /\ bus_history = <<>>
  /\ bus_inv = [e \in EventIds |-> [s \in Subs |-> "none"]]
  /\ bus_delivered = [e \in EventIds |-> [s \in Subs |-> 0]]
  /\ bus_unsub = [s \in Subs |-> -1]
  /\ bus_query = NoQuery

(* ------------------------- Retry Policy -------------------------------- *)
\* delays are exact rationals <<numerator, denominator>>
Frac(n) == <<n, 1>>
FMul(f, g) == <<f[1] * g[1], f[2] * g[2]>>
FLeq(f, g) == f[1] * g[2] <= g[1] * f[2]
FEq(f, g) == f[1] * g[2] = g[1] * f[2]
FMin(f, g) == IF FLeq(f, g) THEN f ELSE g

RECURSIVE Pow(_, _)
Pow(b, k) == IF k = 0 THEN 1 ELSE b * Pow(b, k - 1)

\* values of 0.5 + random.random(), random.random() in [0, 1)
JitterFactors == {<<1, 2>>, <<1, 1>>, <<5, 4>>}

\* base_agent.py:344  if attempt < self.retry_config.max_retries
AttemptsRemainShort(attempt) == attempt + 1 < retry_config.max_retries
AttemptsRemain(attempt) == attempt < retry_config.max_retries

\* base_agent.py:345-347  the delay after the optional jitter
JitteredDelay(delay, f) == IF retry_config.jitter THEN FMul(delay, f) ELSE delay

\* base_agent.py:349  wait_time = min(delay, max_delay)
WaitTime(delay) == FMin(delay, Frac(retry_config.max_delay))

\* base_agent.py:356  delay *= exponential_base
NextDelayAdd(delay) == <<delay[1] + retry_config.exponential_base * delay[2], delay[2]>>
NextDelay(delay) == FMul(delay, Frac(retry_config.exponential_base))

(* ------------------------- Worker tasks -------------------------------- *)
\* a counter of published events that stops counting at its bound
CountUpTo(n, bound) == IF n < bound THEN n + 1 ELSE n

Slots == 1..MaxTasks

NoLoop == [pc |-> "none", attempt |-> 0, delay |-> Frac(0), wait |-> Frac(0),
           calls |-> 0, last |-> "-"]
NewLoop == [NoLoop EXCEPT !.pc = "top"]
DoneLoop == [NoLoop EXCEPT !.pc = "done"]

LoopLive(l) == l.pc \notin {"none", "done"}
SlotFree(w, t) == ~LoopLive(run_loop[w][t]) /\ hb_loop[w][t] # "live"
FreeSlots(w) == {t \in Slots : SlotFree(w, t)}
FirstFree(w) == CHOOSE t \in FreeSlots(w) : \A u \in FreeSlots(w) : t <= u

\* callers of a Worker's start()/stop(): an external caller, the tasks created
\* by the Supervisor's start()/stop(), and each health-check task
HName(h) == ToString(h)
Callers == {"env", "api"} \cup {HName(h) : h \in 1..MaxHealth}
NoCall == [op |-> "none", pc |-> "-", ok |-> FALSE]
NewCall(op) == [op |-> op, pc |-> "new", ok |-> FALSE]
\* a call made with asyncio.create_task waits to be scheduled; an awaited
\* call runs at once in the caller's task
Pending(c, op) == IF c = "api" THEN NewCall(op) ELSE NoCall
Returned(c, op, ok) == IF c = "env" THEN NoCall ELSE [op |-> op, pc |-> "ret", ok |-> ok]

\* base_agent.py:140  start() is allowed from these states only
StartAllowedAny(s) == s # "starting"
StartAllowed(s) == s \in {"idle", "stopped", "error"}

(* ------------------------- BaseAgent._add_error ------------------------- *)
\* Python's errs[-n:]: the last n elements, all of them if there are fewer
LastOf(errs, n) ==
  IF Len(errs) <= n THEN errs ELSE SubSeq(errs, Len(errs) - n + 1, Len(errs))

\* the mutated variant keeps the first records and drops the new one
AddErrorKeepsOldest(errs, kind) ==
  LET appended == Append(errs, kind) IN
  IF Len(appended) > MaxErrorRing THEN SubSeq(appended, 1, MaxErrorRing) ELSE appended
\* base_agent.py:430-440: append, then cut to the last 100 records
AddError(errs, kind) ==
  LET appended == Append(errs, kind) IN
  IF Len(appended) > MaxErrorRing THEN LastOf(appended, MaxErrorRing) ELSE appended

(* --------- BaseAgent._run_loop and _execute_with_retry ------------------ *)
\* base_agent.py:247-251 and 322-331: a new execution of the unit of work,
\* attempt 0 of _execute_with_retry, up to the await of run()
BeginRun(w, t) ==
  /\ total_runs[w] < MaxRuns
  /\ total_runs' = [total_runs EXCEPT ![w] = @ + 1]
  /\ run_loop' = [run_loop EXCEPT ![w][t] =
       [pc |-> "work", attempt |-> 0, delay |-> Frac(retry_config.initial_delay),
        wait |-> Frac(0), calls |-> 1, last |-> "-"]]

\* base_agent.py:240-245: the loop condition, the pause wait and the second
\* shutdown check, reached at task start and after _wait_for_interval
LoopTop(w, t) ==
  IF shutdown_event[w]
  THEN /\ run_loop' = [run_loop EXCEPT ![w][t] = DoneLoop]
       /\ UNCHANGED total_runs
  ELSE IF ~pause_event[w]
  THEN /\ run_loop' = [run_loop EXCEPT ![w][t] = [NoLoop EXCEPT !.pc = "pausewait"]]
       /\ UNCHANGED total_runs
  ELSE BeginRun(w, t)

\* the task is scheduled for the first time, or _wait_for_interval returns
\* (base_agent.py:264, 272-280)
RunLoopTopW(w, t) ==
  /\ run_loop[w][t].pc \in {"top", "interval"}
  /\ LoopTop(w, t)
  /\ UNCHANGED <<retry_config, state, shutdown_event, pause_event, cur_task, hb_loop, last_heartbeat,
                 call, error_events, errors>>

\* base_agent.py:242-245: _pause_event.wait() returns
RunLoopResumeW(w, t) ==
  /\ run_loop[w][t].pc = "pausewait"
  /\ pause_event[w]
  /\ LoopTop(w, t)
  /\ UNCHANGED <<retry_config, state, shutdown_event, pause_event, cur_task, hb_loop, last_heartbeat,
                 call, error_events, errors>>

\* base_agent.py:331-336 and 253-257: run() returns (True or False)
WorkReturnsW(w, t) ==
  /\ run_loop[w][t].pc = "work"
  /\ state' = IF run_loop[w][t].attempt > 0 THEN [state EXCEPT ![w] = "running"] ELSE state
  /\ run_loop' = [run_loop EXCEPT ![w][t].pc = "interval", ![w][t].last = "ok"]
  /\ UNCHANGED <<retry_config, shutdown_event, pause_event, cur_task, hb_loop, last_heartbeat, call,
                 total_runs, error_events, errors>>

\* base_agent.py:340-359 and 259-262: run() raises
WorkRaisesW(w, t, f) ==
  /\ run_loop[w][t].pc = "work"
  /\ IF AttemptsRemain(run_loop[w][t].attempt)
     THEN LET d == JitteredDelay(run_loop[w][t].delay, f) IN
          /\ run_loop' = [run_loop EXCEPT ![w][t].pc = "backoff",
                                          ![w][t].delay = d,
                                          ![w][t].wait = WaitTime(d)]
          /\ UNCHANGED <<state, error_events, errors>>
     ELSE /\ state' = [state EXCEPT ![w] = "error"]
          /\ error_events' = [error_events EXCEPT ![w] = CountUpTo(@, MaxErrorEvents)]
          /\ errors' = [errors EXCEPT ![w] = AddError(@, "run_error")]
          /\ run_loop' = [run_loop EXCEPT ![w][t].pc = "interval",
                                          ![w][t].last = "exhausted"]
  /\ UNCHANGED <<retry_config, shutdown_event, pause_event, cur_task, hb_loop, last_heartbeat, call,
                 total_runs>>

\* base_agent.py:355-356 and 325-331: the backoff sleep ends, next attempt
BackoffElapsedW(w, t) ==
  /\ run_loop[w][t].pc = "backoff"
  /\ state' = [state EXCEPT ![w] = "recovering"]
  /\ run_loop' = [run_loop EXCEPT ![w][t].pc = "work",
                                  ![w][t].attempt = @ + 1,
                                  ![w][t].calls = @ + 1,
                                  ![w][t].delay = NextDelay(@)]
  /\ UNCHANGED <<retry_config, shutdown_event, pause_event, cur_task, hb_loop, last_heartbeat, call,
                 total_runs, error_events, errors>>

\* base_agent.py:284-297: the loop condition holds and the heartbeat loop
\* publishes an AGENT_HEARTBEAT event that carries the current state
HeartbeatW(w, t) ==
  /\ hb_loop[w][t] = "live"
  /\ ~shutdown_event[w]
  /\ last_heartbeat' = [last_heartbeat EXCEPT ![w] = state[w]]
  /\ UNCHANGED <<retry_config, state, shutdown_event, pause_event, cur_task, run_loop,
                 hb_loop, call, total_runs, error_events, errors>>

\* base_agent.py:284: the heartbeat loop sees the shutdown signal
HeartbeatExitW(w, t) ==
  /\ hb_loop[w][t] = "live"
  /\ shutdown_event[w]
  /\ hb_loop' = [hb_loop EXCEPT ![w][t] = "done"]
  /\ UNCHANGED <<retry_config, state, shutdown_event, pause_event, cur_task, run_loop,
                 last_heartbeat, call, total_runs, error_events, errors>>

(* ------------------- BaseAgent.start / stop / pause / resume ------------ *)
\* base_agent.py:140-150: guard, Starting, signals reset, up to the await
\* of the startup hook
StartBeginW(w, c) ==
  /\ call[w][c] = Pending(c, "start")
  /\ IF StartAllowed(state[w])
     THEN /\ state' = [state EXCEPT ![w] = "starting"]
          /\ shutdown_event' = [shutdown_event EXCEPT ![w] = FALSE]
          /\ pause_event' = [pause_event EXCEPT ![w] = TRUE]
          /\ call' = [call EXCEPT ![w][c] = [op |-> "start", pc |-> "hook", ok |-> FALSE]]
     ELSE /\ call' = [call EXCEPT ![w][c] = Returned(c, "start", FALSE)]
          /\ UNCHANGED <<state, shutdown_event, pause_event>>
  /\ UNCHANGED <<retry_config, cur_task, run_loop, hb_loop, last_heartbeat, total_runs, error_events, errors>>

\* base_agent.py:150-168: the hook and the subscription succeed (ok) and the
\* loops are created, or one of them raises
StartFinishW(w, c, ok) ==
  /\ call[w][c] = [op |-> "start", pc |-> "hook", ok |-> FALSE]
  /\ IF ok
     THEN /\ FreeSlots(w) # {}
          /\ LET t == FirstFree(w) IN
             /\ run_loop' = [run_loop EXCEPT ![w][t] = NewLoop]
             /\ hb_loop' = [hb_loop EXCEPT ![w][t] = "live"]
             /\ cur_task' = [cur_task EXCEPT ![w] = t]
          /\ state' = [state EXCEPT ![w] = "running"]
          /\ UNCHANGED <<error_events, errors>>
     ELSE /\ state' = [state EXCEPT ![w] = "error"]
          /\ error_events' = [error_events EXCEPT ![w] = CountUpTo(@, MaxErrorEvents)]
          /\ errors' = [errors EXCEPT ![w] = AddError(@, "start_failed")]
          /\ UNCHANGED <<run_loop, hb_loop, cur_task>>
  /\ call' = [call EXCEPT ![w][c] = Returned(c, "start", ok)]
  /\ UNCHANGED <<retry_config, shutdown_event, pause_event, last_heartbeat, total_runs>>

\* base_agent.py:180-197: guard, Stopping, signals, heartbeat cancellation,
\* up to the wait for the run loop
StopBeginW(w, c) ==
  /\ call[w][c] = Pending(c, "stop")
  /\ IF state[w] = "stopped"
     THEN /\ call' = [call EXCEPT ![w][c] = Returned(c, "stop", TRUE)]
          /\ UNCHANGED <<state, shutdown_event, pause_event, hb_loop>>
     ELSE /\ state' = [state EXCEPT ![w] = "stopping"]
          /\ shutdown_event' = [shutdown_event EXCEPT ![w] = TRUE]
          /\ pause_event' = [pause_event EXCEPT ![w] = TRUE]
          /\ hb_loop' = IF cur_task[w] # 0 /\ hb_loop[w][cur_task[w]] = "live"
                        THEN [hb_loop EXCEPT ![w][cur_task[w]] = "done"]
                        ELSE hb_loop
          /\ call' = [call EXCEPT ![w][c] = [op |-> "stop", pc |-> "wait", ok |-> FALSE]]
  /\ UNCHANGED <<retry_config, cur_task, run_loop, last_heartbeat, total_runs, error_events, errors>>

\* base_agent.py:198-204: the wait for the run loop times out, the run loop
\* is cancelled
StopTimeoutW(w, c) ==
  /\ call[w][c] = [op |-> "stop", pc |-> "wait", ok |-> FALSE]
  /\ cur_task[w] # 0
  /\ LoopLive(run_loop[w][cur_task[w]])
  /\ run_loop[w][cur_task[w]].pc # "deaf"
  /\ run_loop' = [run_loop EXCEPT ![w][cur_task[w]] = DoneLoop]
  /\ UNCHANGED <<retry_config, state, shutdown_event, pause_event, cur_task, hb_loop, last_heartbeat,
                 call, total_runs, error_events, errors>>

\* base_agent.py:198-204: the wait times out and the run loop is cancelled
\* while run() is in flight, and run() catches the CancelledError and goes
\* on (pc "deaf"); stop() stays in its await of the run task, which has no
\* timeout
StopTimeoutSwallowedW(w, c) ==
  /\ call[w][c] = [op |-> "stop", pc |-> "wait", ok |-> FALSE]
  /\ cur_task[w] # 0
  /\ run_loop[w][cur_task[w]].pc = "work"
  /\ run_loop' = [run_loop EXCEPT ![w][cur_task[w]].pc = "deaf"]
  /\ UNCHANGED <<retry_config, state, shutdown_event, pause_event, cur_task, hb_loop, last_heartbeat,
                 call, total_runs, error_events, errors>>

\* base_agent.py:206-222: the run loop has ended; shutdown hook and
\* deregistration succeed (ok) or raise
StopFinishW(w, c, ok) ==
  /\ call[w][c] = [op |-> "stop", pc |-> "wait", ok |-> FALSE]
  /\ cur_task[w] # 0 => ~LoopLive(run_loop[w][cur_task[w]])
  /\ IF ok
     THEN /\ state' = [state EXCEPT ![w] = "stopped"]
          /\ UNCHANGED error_events
     ELSE /\ state' = [state EXCEPT ![w] = "error"]
          /\ error_events' = [error_events EXCEPT ![w] = CountUpTo(@, MaxErrorEvents)]
  /\ call' = [call EXCEPT ![w][c] = Returned(c, "stop", ok)]
  /\ UNCHANGED <<retry_config, shutdown_event, pause_event, cur_task, run_loop, hb_loop, last_heartbeat,
                 total_runs, errors>>

\* base_agent.py:224-229
PauseW(w) ==
  /\ state[w] = "running"
  /\ pause_event' = [pause_event EXCEPT ![w] = FALSE]
  /\ state' = [state EXCEPT ![w] = "paused"]
  /\ UNCHANGED <<retry_config, shutdown_event, cur_task, run_loop, hb_loop, last_heartbeat, call,
                 total_runs, error_events, errors>>

\* base_agent.py:231-236
ResumeW(w) ==
  /\ state[w] = "paused"
  /\ pause_event' = [pause_event EXCEPT ![w] = TRUE]
  /\ state' = [state EXCEPT ![w] = "running"]
  /\ UNCHANGED <<retry_config, shutdown_event, cur_task, run_loop, hb_loop, last_heartbeat, call,
                 total_runs, error_events, errors>>

(* ----------------------- Worker on its own ------------------------------ *)
\* Retry Policies drawn for the Worker specifications
RetryConfigs ==
  [max_retries : 0..MaxRetriesBound, initial_delay : {1, 3}, max_delay : {2, 300},
   exponential_base : {2, 3}, jitter : BOOLEAN]

\* BaseAgent.__init__, base_agent.py:87-103
WorkerInit ==
  /\ state = [w \in Workers |-> "idle"]
  /\ shutdown_event = [w \in Workers |-> FALSE]
  /\ pause_event = [w \in Workers |-> TRUE]
  /\ cur_task = [w \in Workers |-> 0]
  /\ run_loop = [w \in Workers |-> [t \in Slots |-> NoLoop]]
  /\ hb_loop = [w \in Workers |-> [t \in Slots |-> "none"]]
  /\ last_heartbeat = [w \in Workers |-> "-"]
  /\ call = [w \in Workers |-> [c \in Callers |-> NoCall]]
  /\ total_runs = [w \in Workers |-> 0]
  /\ error_events = [w \in Workers |-> 0]
  /\ errors = [w \in Workers |-> <<>>]

\* last: how the latest _handle_agent_failure call of the task ended
NoHealth == [pc |-> "none", idx |-> 0, rc |-> 0, last |-> "-"]
DoneHealth == [NoHealth EXCEPT !.pc = "done"]
\* ok: what the Supervisor's start()/stop() returns (pc "ret"); started: the
\* Workers whose start() returned True in the gather of Supervisor.start()
NoApi == [op |-> "none", pc |-> "-", ok |-> FALSE, started |-> {}]
\* no get_status() call has returned yet
NoStatus == [orchestrator_state |-> "-", agents |-> <<>>, restart_counts |-> <<>>,
             event_bus_running |-> FALSE]

\* AgentOrchestrator.__init__, orchestrator.py:62-74
SupInitWith(cfg) ==
  /\ sup_config = cfg
  /\ sup_state = "stopped"
  /\ sup_shutdown = FALSE
  /\ agents_created = FALSE
  /\ restart_counts = [w \in Workers |-> 0]
  /\ health = [h \in 1..MaxHealth |-> NoHealth]
  /\ cur_health = 0
  /\ api = NoApi
  /\ sys_error_events = [w \in Workers |-> 0]
  /\ restart_attempts = [w \in Workers |-> 0]
  /\ sup_status = NoStatus
  /\ forever = "none"
  \* get_event_bus(), orchestrator.py:62: a bus that has not been started
  /\ BusInit

\* one Worker driven by arbitrary callers of its public operations
Init ==
  /\ retry_config \in {r \in RetryConfigs :
        r.initial_delay = 1 /\ r.max_delay = 300 /\ r.exponential_base = 2 /\ ~r.jitter}
  /\ WorkerInit
  /\ SupInitWith([auto_restart |-> TRUE, max_restart_attempts |-> 1, agents |-> <<>>])

\* the Worker the external callers drive
TheWorker == "w1"

RunLoopTop == \E w \in Workers, t \in Slots : RunLoopTopW(w, t) /\ UNCHANGED <<svars, bvars>>
RunLoopResume == \E w \in Workers, t \in Slots : RunLoopResumeW(w, t) /\ UNCHANGED <<svars, bvars>>
WorkReturns == \E w \in Workers, t \in Slots : WorkReturnsW(w, t) /\ UNCHANGED <<svars, bvars>>
WorkRaises ==
  \E w \in Workers, t \in Slots :
     \E f \in (IF retry_config.jitter THEN JitterFactors ELSE {<<1, 1>>}) :
        WorkRaisesW(w, t, f) /\ UNCHANGED <<svars, bvars>>
BackoffElapsed == \E w \in Workers, t \in Slots : BackoffElapsedW(w, t) /\ UNCHANGED <<svars, bvars>>
HeartbeatExit == \E w \in Workers, t \in Slots : HeartbeatExitW(w, t) /\ UNCHANGED <<svars, bvars>>
StartBegin == StartBeginW(TheWorker, "env") /\ UNCHANGED <<svars, bvars>>
StartFinish == \E ok \in BOOLEAN : StartFinishW(TheWorker, "env", ok) /\ UNCHANGED <<svars, bvars>>
StopBegin == StopBeginW(TheWorker, "env") /\ UNCHANGED <<svars, bvars>>
StopTimeout == StopTimeoutW(TheWorker, "env") /\ UNCHANGED <<svars, bvars>>
StopFinish == \E ok \in BOOLEAN : StopFinishW(TheWorker, "env", ok) /\ UNCHANGED <<svars, bvars>>
Pause == PauseW(TheWorker) /\ UNCHANGED <<svars, bvars>>
Resume == ResumeW(TheWorker) /\ UNCHANGED <<svars, bvars>>

Next ==
  \/ RunLoopTop \/ RunLoopResume \/ WorkReturns \/ WorkRaises \/ BackoffElapsed
  \/ HeartbeatExit
  \/ StartBegin \/ StartFinish \/ StopBegin \/ StopTimeout \/ StopFinish
  \/ Pause \/ Resume

Spec == Init /\ [][Next]_vars

(* ------- one Worker whose callers keep what start() and stop() return --- *)
\* tasks that await the Worker's start() and stop() and read the result
CallerTasks == {HName(h) : h \in 1..MaxHealth}

\* the caller has read the returned value
CallReturnsW(w, c) ==
  /\ call[w][c].pc = "ret"
  /\ call' = [call EXCEPT ![w][c] = NoCall]
  /\ UNCHANGED <<retry_config, state, shutdown_event, pause_event, cur_task, run_loop,
                 hb_loop, last_heartbeat, total_runs, error_events, errors>>

InitCalls ==
  /\ retry_config \in {r \in RetryConfigs :
        /\ r.max_retries = 1 /\ r.initial_delay = 1 /\ r.max_delay = 300
        /\ r.exponential_base = 2 /\ ~r.jitter}
  /\ WorkerInit
  /\ SupInitWith([auto_restart |-> TRUE, max_restart_attempts |-> 1, agents |-> <<>>])

CallStartBegin ==
  \E c \in CallerTasks : StartBeginW(TheWorker, c) /\ UNCHANGED <<svars, bvars>>
CallStartFinish ==
  \E c \in CallerTasks, ok \in BOOLEAN :
     StartFinishW(TheWorker, c, ok) /\ UNCHANGED <<svars, bvars>>
CallStopBegin ==
  \E c \in CallerTasks : StopBeginW(TheWorker, c) /\ UNCHANGED <<svars, bvars>>
CallStopTimeout ==
  \E c \in CallerTasks : StopTimeoutW(TheWorker, c) /\ UNCHANGED <<svars, bvars>>
CallStopFinish ==
  \E c \in CallerTasks, ok \in BOOLEAN :
     StopFinishW(TheWorker, c, ok) /\ UNCHANGED <<svars, bvars>>
CallReturns ==
  \E c \in CallerTasks : CallReturnsW(TheWorker, c) /\ UNCHANGED <<svars, bvars>>

NextCalls ==
  \/ RunLoopTop \/ RunLoopResume \/ WorkReturns \/ WorkRaises \/ BackoffElapsed
  \/ HeartbeatExit
  \/ CallStartBegin \/ CallStartFinish \/ CallStopBegin \/ CallStopTimeout
  \/ CallStopFinish \/ CallReturns
  \/ Pause \/ Resume

SpecCalls == InitCalls /\ [][NextCalls]_vars

(* ------- one Worker whose heartbeat interval keeps elapsing ------------- *)
Heartbeat == \E t \in Slots : HeartbeatW(TheWorker, t) /\ UNCHANGED <<svars, bvars>>

\* one task calls start(), another calls stop()
Starter == "1"
Stopper == "2"
StarterBegin == StartBeginW(TheWorker, Starter) /\ UNCHANGED <<svars, bvars>>
StarterFinish ==
  \E ok \in BOOLEAN : StartFinishW(TheWorker, Starter, ok) /\ UNCHANGED <<svars, bvars>>
StarterReturns == CallReturnsW(TheWorker, Starter) /\ UNCHANGED <<svars, bvars>>
StopperBegin == StopBeginW(TheWorker, Stopper) /\ UNCHANGED <<svars, bvars>>
StopperTimeout == StopTimeoutW(TheWorker, Stopper) /\ UNCHANGED <<svars, bvars>>
StopperFinish == StopFinishW(TheWorker, Stopper, TRUE) /\ UNCHANGED <<svars, bvars>>
StopperTakes == CallReturnsW(TheWorker, Stopper) /\ UNCHANGED <<svars, bvars>>

NextHeartbeat ==
  \/ RunLoopTop \/ RunLoopResume \/ WorkReturns \/ WorkRaises \/ BackoffElapsed
  \/ HeartbeatExit \/ Heartbeat
  \/ StarterBegin \/ StarterFinish \/ StarterReturns
  \/ StopperBegin \/ StopperTimeout \/ StopperFinish \/ StopperTakes
  \/ Pause \/ Resume

\* the sleep of heartbeat_interval seconds always comes to its end
SpecHeartbeat ==
  /\ InitCalls
  /\ [][NextHeartbeat]_vars
  /\ WF_vars(Heartbeat)

(* ------- one Worker whose startup hook and unit of work may raise ------- *)
\* the shutdown hook succeeds, so that every AGENT_ERROR event comes with an
\* error record
NextErrors ==
  \/ RunLoopTop \/ RunLoopResume \/ WorkReturns \/ WorkRaises \/ BackoffElapsed
  \/ HeartbeatExit
  \/ StarterBegin \/ StarterFinish \/ StarterReturns
  \/ StopperBegin \/ StopperTimeout \/ StopperFinish \/ StopperTakes
  \/ Pause \/ Resume

SpecErrors == InitCalls /\ [][NextErrors]_vars

(* ------- stop() of a started Worker, the hooks do not raise ------------- *)
\* the task that calls start() and stop()
StopCaller == "1"

StopperStartBegin == StartBeginW(TheWorker, StopCaller) /\ UNCHANGED <<svars, bvars>>
StopperStartFinish == StartFinishW(TheWorker, StopCaller, TRUE) /\ UNCHANGED <<svars, bvars>>
StopperStopBegin == StopBeginW(TheWorker, StopCaller) /\ UNCHANGED <<svars, bvars>>
StopperStopTimeout == StopTimeoutW(TheWorker, StopCaller) /\ UNCHANGED <<svars, bvars>>
StopperStopTimeoutSwallowed ==
  StopTimeoutSwallowedW(TheWorker, StopCaller) /\ UNCHANGED <<svars, bvars>>
StopperStopFinish == StopFinishW(TheWorker, StopCaller, TRUE) /\ UNCHANGED <<svars, bvars>>
StopperReturns == CallReturnsW(TheWorker, StopCaller) /\ UNCHANGED <<svars, bvars>>

NextStop ==
  \/ RunLoopTop \/ RunLoopResume \/ WorkReturns \/ WorkRaises \/ BackoffElapsed
  \/ HeartbeatExit
  \/ StopperStartBegin \/ StopperStartFinish \/ StopperStopBegin \/ StopperStopTimeout
  \/ StopperStopTimeoutSwallowed \/ StopperStopFinish \/ StopperReturns
  \/ Pause \/ Resume

\* the timeout of wait_for elapses and the shutdown hook returns; the unit
\* of work itself need not ever return
SpecStop ==
  /\ InitCalls
  /\ [][NextStop]_vars
  /\ WF_vars(StopperStopTimeout \/ StopperStopTimeoutSwallowed)
  /\ WF_vars(StopperStopFinish)

(* ------- a Worker whose resume() is called whenever it has an effect ---- *)
\* resume() is called whenever the Worker is left Paused
SpecPause ==
  /\ InitCalls
  /\ [][Next]_vars
  /\ WF_vars(Resume)

(* --------------- the retry procedure under every Retry Policy ----------- *)
InitRetry ==
  /\ retry_config \in RetryConfigs
  /\ WorkerInit
  /\ SupInitWith([auto_restart |-> TRUE, max_restart_attempts |-> 1, agents |-> <<>>])

\* the Worker is started once and its startup hook succeeds
FirstStart == state[TheWorker] = "idle" /\ StartBegin
StartFinishOk == StartFinishW(TheWorker, "env", TRUE) /\ UNCHANGED <<svars, bvars>>

NextRetry ==
  \/ FirstStart \/ StartFinishOk
  \/ RunLoopTop \/ WorkReturns \/ WorkRaises \/ BackoffElapsed

SpecRetry == InitRetry /\ [][NextRetry]_vars

(* ------- a started Worker whose unit of work fails on every attempt ----- *)
InitFailing ==
  /\ retry_config \in {r \in RetryConfigs : r.max_retries = 2}
  /\ WorkerInit
  /\ SupInitWith([auto_restart |-> TRUE, max_restart_attempts |-> 1, agents |-> <<>>])

\* no external start() or stop() after the first start(); pause() and
\* resume() remain free
NextFailing ==
  \/ FirstStart \/ StartFinishOk
  \/ RunLoopTop \/ RunLoopResume \/ WorkRaises \/ BackoffElapsed
  \/ Pause \/ Resume

SpecFailing == InitFailing /\ [][NextFailing]_vars

(* ------------------------- Supervisor ----------------------------------- *)
\* orchestrator.py:117-139: the fixed set of Workers, in dictionary order
WorkerSeq == sup_config.agents
FixedSet == {WorkerSeq[i] : i \in 1..Len(WorkerSeq)}
Agents == IF agents_created THEN FixedSet ELSE {}

SupConfigs(agents) ==
  [auto_restart : BOOLEAN, max_restart_attempts : 0..MaxRestartBound, agents : {agents}]

HealthLive(h) == health[h].pc \notin {"none", "done"}
HealthMidRestart(h) == health[h].pc \in {"scan", "stopping", "cooldown", "starting"}
FreeHealth == {h \in 1..MaxHealth : ~HealthLive(h)}
FirstFreeHealth == CHOOSE h \in FreeHealth : \A g \in FreeHealth : h <= g

ApiReturn(op, ok, st) == [op |-> op, pc |-> "ret", ok |-> ok, started |-> st]
StopWaiting == [op |-> "stop", pc |-> "wait", ok |-> FALSE]

\* orchestrator.py:191-200: one start() task per Worker, then gather
StartTasks ==
  /\ sup_shutdown' = FALSE
  /\ api' = [op |-> "start", pc |-> "gather_start", ok |-> FALSE, started |-> {}]

\* orchestrator.py:178-200 (with initialize, 93-113, and _create_agents,
\* 115-142, when the state is Stopped)
SupStartBegin(initOk) ==
  /\ api.op = "none"
  /\ CASE sup_state = "running" ->
            /\ initOk
            /\ api' = ApiReturn("start", TRUE, {})
            /\ UNCHANGED <<wvars, sup_config, sup_status, bvars, sup_state, sup_shutdown, agents_created,
                           restart_counts, health, cur_health, sys_error_events,
                           restart_attempts>>
       [] sup_state = "stopped" /\ ~initOk ->
            /\ sup_state' = "error"
            /\ api' = ApiReturn("start", FALSE, {})
            /\ UNCHANGED <<wvars, sup_config, sup_status, bvars, sup_shutdown, agents_created,
                           restart_counts, health, cur_health, sys_error_events,
                           restart_attempts>>
       [] sup_state = "stopped" /\ initOk ->
            \* new Worker objects replace the old ones
            /\ \A h \in 1..MaxHealth : ~HealthMidRestart(h)
            /\ sup_state' = "initializing"
            /\ agents_created' = TRUE
            /\ restart_counts' = [w \in Workers |-> 0]
            /\ restart_attempts' = [w \in Workers |-> 0]
            /\ sys_error_events' = [w \in Workers |-> 0]
            /\ state' = [w \in Workers |-> "idle"]
            /\ shutdown_event' = [w \in Workers |-> FALSE]
            /\ pause_event' = [w \in Workers |-> TRUE]
            /\ cur_task' = [w \in Workers |-> 0]
            /\ run_loop' = [w \in Workers |-> [t \in Slots |-> NoLoop]]
            /\ hb_loop' = [w \in Workers |-> [t \in Slots |-> "none"]]
            /\ last_heartbeat' = [w \in Workers |-> "-"]
            /\ total_runs' = [w \in Workers |-> 0]
            /\ error_events' = [w \in Workers |-> 0]
            /\ errors' = [w \in Workers |-> <<>>]
            /\ call' = [w \in Workers |-> [c \in Callers |->
                          IF c = "api" /\ w \in FixedSet THEN NewCall("start") ELSE NoCall]]
            /\ StartTasks
            \* initialize(), orchestrator.py:104: init_event_bus() starts the bus
            /\ bus_running' = TRUE
            /\ bus_proc' = [pc |-> "wait", ev |-> 0]
            /\ UNCHANGED <<retry_config, sup_config, sup_status, busrest, health, cur_health>>
       [] OTHER ->
            /\ initOk
            /\ call' = [w \in Workers |-> [c \in Callers |->
                          IF c = "api" /\ w \in Agents THEN NewCall("start")
                          ELSE call[w][c]]]
            /\ StartTasks
            /\ UNCHANGED <<retry_config, state, shutdown_event, pause_event, cur_task,
                           run_loop, hb_loop, last_heartbeat, total_runs, error_events, errors,
                           sup_config, sup_status, bvars, sup_state, agents_created, restart_counts,
                           health, cur_health, sys_error_events, restart_attempts>>

\* orchestrator.py:240-261: Stopping, shutdown signal, the health-check task
\* is cancelled (a start()/stop() it was awaiting is cancelled with it, and
\* wait_for passes the cancellation on to the run loop), one stop() task per
\* Worker, then gather
StopCore(op, st) ==
  LET hc == IF cur_health # 0 /\ HealthLive(cur_health) THEN HName(cur_health) ELSE "-" IN
  /\ sup_state' = "stopping"
  /\ sup_shutdown' = TRUE
  /\ health' = IF hc # "-" THEN [health EXCEPT ![cur_health] = DoneHealth] ELSE health
  /\ run_loop' = [w \in Workers |->
        IF hc # "-" /\ call[w][hc] = StopWaiting /\ cur_task[w] # 0
        THEN [run_loop[w] EXCEPT ![cur_task[w]] = DoneLoop]
        ELSE run_loop[w]]
  /\ call' = [w \in Workers |-> [c \in Callers |->
        IF c = "api" THEN (IF w \in Agents THEN NewCall("stop") ELSE NoCall)
        ELSE IF c = hc THEN NoCall
        ELSE call[w][c]]]
  /\ api' = [op |-> op, pc |-> "gather_stop", ok |-> FALSE, started |-> st]
  /\ UNCHANGED <<retry_config, state, shutdown_event, pause_event, cur_task, hb_loop, last_heartbeat,
                 total_runs, error_events, errors,
                 sup_config, sup_status, bvars, agents_created, restart_counts, cur_health,
                 sys_error_events, restart_attempts>>

\* orchestrator.py:197-219: every start() task has returned
SupStartGather ==
  /\ api.op = "start" /\ api.pc = "gather_start"
  /\ UNCHANGED forever
  /\ \A w \in Agents : call[w]["api"].pc = "ret"
  /\ LET started == {w \in Agents : call[w]["api"].ok} IN
     IF started = Agents
     THEN /\ FreeHealth # {}
          /\ sup_state' = "running"
          /\ health' = [health EXCEPT ![FirstFreeHealth] = [NoHealth EXCEPT !.pc = "sleep"]]
          /\ cur_health' = FirstFreeHealth
          /\ call' = [w \in Workers |-> [call[w] EXCEPT !["api"] = NoCall]]
          /\ api' = ApiReturn("start", TRUE, started)
          /\ UNCHANGED <<retry_config, state, shutdown_event, pause_event, cur_task,
                         run_loop, hb_loop, last_heartbeat, total_runs, error_events, errors,
                         sup_config, sup_status, bvars, sup_shutdown, agents_created, restart_counts,
                         sys_error_events, restart_attempts>>
     ELSE StopCore("start", started)

\* orchestrator.py:236-261
SupStopBegin ==
  /\ api.op = "none"
  /\ UNCHANGED forever
  /\ IF sup_state = "stopped"
     THEN /\ api' = ApiReturn("stop", TRUE, {})
          /\ UNCHANGED <<wvars, sup_config, sup_status, bvars, sup_state, sup_shutdown, agents_created,
                         restart_counts, health, cur_health, sys_error_events,
                         restart_attempts>>
     ELSE StopCore("stop", {})

\* orchestrator.py:258-279: every stop() task has returned
SupStopGather ==
  /\ api.pc = "gather_stop"
  /\ \A w \in Agents : call[w]["api"].pc = "ret"
  \* shutdown_event_bus(), orchestrator.py:275: the bus, whose queue is empty,
  \* is stopped and dropped; the next initialize() makes a new one
  /\ bus_running' = FALSE
  /\ bus_proc' = NoProc
  /\ sup_state' = "stopped"
  /\ call' = [w \in Workers |-> [call[w] EXCEPT !["api"] = NoCall]]
  /\ api' = ApiReturn(api.op, api.op = "stop", api.started)
  /\ UNCHANGED <<retry_config, state, shutdown_event, pause_event, cur_task, run_loop,
                 hb_loop, last_heartbeat, total_runs, error_events, errors,
                 sup_config, sup_status, forever, busrest, sup_shutdown, agents_created, restart_counts, health,
                 cur_health, sys_error_events, restart_attempts>>

\* the caller of start()/stop() takes the returned value (run_forever()
\* takes the value of its own calls itself)
SupReturn ==
  /\ api.pc = "ret"
  /\ forever \notin {"start", "stop"}
  /\ api' = NoApi
  /\ UNCHANGED <<wvars, sup_config, sup_status, forever, bvars, sup_state, sup_shutdown, agents_created,
                 restart_counts, health, cur_health, sys_error_events, restart_attempts>>

\* orchestrator.py:286-294
SupPause ==
  /\ sup_state = "running"
  /\ pause_event' = [w \in Workers |->
        IF w \in Agents /\ state[w] = "running" THEN FALSE ELSE pause_event[w]]
  /\ state' = [w \in Workers |->
        IF w \in Agents /\ state[w] = "running" THEN "paused" ELSE state[w]]
  /\ sup_state' = "paused"
  /\ UNCHANGED <<retry_config, shutdown_event, cur_task, run_loop, hb_loop, last_heartbeat, call,
                 total_runs, error_events, errors,
                 sup_config, sup_status, forever, bvars, sup_shutdown, agents_created, restart_counts, health,
                 cur_health, api, sys_error_events, restart_attempts>>

\* orchestrator.py:296-304
SupResume ==
  /\ sup_state = "paused"
  /\ pause_event' = [w \in Workers |->
        IF w \in Agents /\ state[w] = "paused" THEN TRUE ELSE pause_event[w]]
  /\ state' = [w \in Workers |->
        IF w \in Agents /\ state[w] = "paused" THEN "running" ELSE state[w]]
  /\ sup_state' = "running"
  /\ UNCHANGED <<retry_config, shutdown_event, cur_task, run_loop, hb_loop, last_heartbeat, call,
                 total_runs, error_events, errors,
                 sup_config, sup_status, forever, bvars, sup_shutdown, agents_created, restart_counts, health,
                 cur_health, api, sys_error_events, restart_attempts>>

(* ---------------- health-check loop and restart procedure --------------- *)
\* orchestrator.py:316-319: the Worker is handed to _handle_agent_failure
AgentFailedStoppedOnly(w) == state[w] = "stopped" /\ sup_state = "running"
AgentFailed(w) ==
  \/ state[w] = "error"
  \/ state[w] = "stopped" /\ sup_state = "running"

\* orchestrator.py:336  if not self.auto_restart_agents
AutoRestartDisabled == ~sup_config.auto_restart

\* orchestrator.py:340  if restart_count >= self.max_restart_attempts
RestartExhausted(w) == restart_counts[w] >= sup_config.max_restart_attempts

\* orchestrator.py:362-371: the count written after the restart attempt
CountAfterRestart(rc, ok) == rc + 1

\* the loop moves on to the next Worker of the dictionary, or sleeps again
Advance(h, last) ==
  IF health[h].idx < Len(WorkerSeq)
  THEN [pc |-> "scan", idx |-> health[h].idx + 1, rc |-> 0, last |-> last]
  ELSE [pc |-> "sleep", idx |-> 0, rc |-> 0, last |-> last]

\* orchestrator.py:308-315: the sleep ends
HealthTick(h) ==
  /\ health[h].pc = "sleep"
  /\ IF sup_shutdown
     THEN health' = [health EXCEPT ![h] = DoneHealth]
     ELSE /\ agents_created
          /\ health' = [health EXCEPT ![h] = [pc |-> "scan", idx |-> 1, rc |-> 0,
                                               last |-> "-"]]
  /\ UNCHANGED <<wvars, sup_config, sup_status, forever, bvars, sup_state, sup_shutdown, agents_created,
                 restart_counts, cur_health, api, sys_error_events, restart_attempts>>

\* orchestrator.py:315-319 and 334-358: one Worker is examined; a failed one
\* is left alone (auto-restart off), reported (count exhausted) or its
\* restart begins with stop()
HealthCheck(h) ==
  /\ health[h].pc = "scan"
  /\ LET w == WorkerSeq[health[h].idx] IN
     CASE ~AgentFailed(w) ->
            /\ health' = [health EXCEPT ![h] = Advance(h, health[h].last)]
            /\ UNCHANGED <<wvars, sys_error_events, restart_attempts>>
       [] AgentFailed(w) /\ AutoRestartDisabled ->
            /\ health' = [health EXCEPT ![h] = Advance(h, "disabled")]
            /\ UNCHANGED <<wvars, sys_error_events, restart_attempts>>
       [] AgentFailed(w) /\ ~AutoRestartDisabled /\ RestartExhausted(w) ->
            /\ sys_error_events[w] < MaxSysErrors
            /\ sys_error_events' = [sys_error_events EXCEPT ![w] = @ + 1]
            /\ health' = [health EXCEPT ![h] = Advance(h, "exhausted")]
            /\ UNCHANGED <<wvars, restart_attempts>>
       [] OTHER ->
            /\ StopBeginW(w, HName(h))
            /\ restart_attempts' = [restart_attempts EXCEPT ![w] = @ + 1]
            /\ health' = [health EXCEPT ![h] =
                 [pc |-> "stopping", idx |-> health[h].idx, rc |-> restart_counts[w],
                  last |-> "restart"]]
            /\ UNCHANGED sys_error_events
  /\ UNCHANGED <<sup_config, sup_status, forever, bvars, sup_state, sup_shutdown, agents_created, restart_counts,
                 cur_health, api>>

\* orchestrator.py:358-359: stop() has returned, the cooldown sleep begins
HealthStopDone(h) ==
  /\ health[h].pc = "stopping"
  /\ LET w == WorkerSeq[health[h].idx] IN
     /\ call[w][HName(h)].pc = "ret"
     /\ call' = [call EXCEPT ![w][HName(h)] = NoCall]
  /\ health' = [health EXCEPT ![h].pc = "cooldown"]
  /\ UNCHANGED <<retry_config, state, shutdown_event, pause_event, cur_task, run_loop,
                 hb_loop, last_heartbeat, total_runs, error_events, errors,
                 sup_config, sup_status, forever, bvars, sup_state, sup_shutdown, agents_created, restart_counts,
                 cur_health, api, sys_error_events, restart_attempts>>

\* orchestrator.py:359-360: the cooldown ends, start() is called
HealthCooldownDone(h) ==
  /\ health[h].pc = "cooldown"
  /\ StartBeginW(WorkerSeq[health[h].idx], HName(h))
  /\ health' = [health EXCEPT ![h].pc = "starting"]
  /\ UNCHANGED <<sup_config, sup_status, forever, bvars, sup_state, sup_shutdown, agents_created, restart_counts,
                 cur_health, api, sys_error_events, restart_attempts>>

\* orchestrator.py:360-367: start() has returned, the count is written
HealthStartDone(h) ==
  /\ health[h].pc = "starting"
  /\ LET w == WorkerSeq[health[h].idx] IN
     /\ call[w][HName(h)].pc = "ret"
     /\ restart_counts' = [restart_counts EXCEPT ![w] =
                             CountAfterRestart(health[h].rc, call[w][HName(h)].ok)]
     /\ call' = [call EXCEPT ![w][HName(h)] = NoCall]
  /\ health' = [health EXCEPT ![h] = Advance(h, "restart")]
  /\ UNCHANGED <<retry_config, state, shutdown_event, pause_event, cur_task, run_loop,
                 hb_loop, last_heartbeat, total_runs, error_events, errors,
                 sup_config, sup_status, forever, bvars, sup_state, sup_shutdown, agents_created, cur_health, api,
                 sys_error_events, restart_attempts>>

(* ------------------- Supervisor with its Workers ------------------------ *)
SupCallers == {"api"} \cup {HName(h) : h \in 1..MaxHealth}

SupRetryConfig ==
  [max_retries |-> 1, initial_delay |-> 1, max_delay |-> 300, exponential_base |-> 2,
   jitter |-> FALSE]

\* a Supervisor of one Worker with auto-restart enabled
SupInit ==
  /\ retry_config = SupRetryConfig
  /\ WorkerInit
  /\ \E cfg \in SupConfigs(<<"w1">>) : cfg.auto_restart /\ SupInitWith(cfg)

\* a Supervisor of one Worker with auto-restart disabled
InitNoRestart ==
  /\ retry_config = SupRetryConfig
  /\ WorkerInit
  /\ \E cfg \in SupConfigs(<<"w1">>) : ~cfg.auto_restart /\ SupInitWith(cfg)

\* a Supervisor of two Workers that do not retry, auto-restart disabled
InitRollback ==
  /\ retry_config = [SupRetryConfig EXCEPT !.max_retries = 0]
  /\ WorkerInit
  /\ \E cfg \in SupConfigs(<<"w1", "w2">>) :
        ~cfg.auto_restart /\ cfg.max_restart_attempts = 0 /\ SupInitWith(cfg)

TaskStartBegin == \E w \in Workers : StartBeginW(w, "api") /\ UNCHANGED <<svars, bvars>>
\* the Workers' hooks (_on_start, _on_stop) succeed under a Supervisor
TaskStartFinish ==
  \E w \in Workers, c \in SupCallers : StartFinishW(w, c, TRUE) /\ UNCHANGED <<svars, bvars>>
TaskStopBegin == \E w \in Workers : StopBeginW(w, "api") /\ UNCHANGED <<svars, bvars>>
TaskStopTimeout ==
  \E w \in Workers, c \in SupCallers : StopTimeoutW(w, c) /\ UNCHANGED <<svars, bvars>>
TaskStopFinish ==
  \E w \in Workers, c \in SupCallers : StopFinishW(w, c, TRUE) /\ UNCHANGED <<svars, bvars>>
SupStart == (\E initOk \in BOOLEAN : SupStartBegin(initOk)) /\ UNCHANGED forever
HealthLoopTick == \E h \in 1..MaxHealth : HealthTick(h)
HealthLoopCheck == \E h \in 1..MaxHealth : HealthCheck(h)
RestartStopDone == \E h \in 1..MaxHealth : HealthStopDone(h)
RestartCooldownDone == \E h \in 1..MaxHealth : HealthCooldownDone(h)
RestartStartDone == \E h \in 1..MaxHealth : HealthStartDone(h)

NextSup ==
  \/ RunLoopTop \/ RunLoopResume \/ WorkReturns \/ WorkRaises \/ BackoffElapsed
  \/ HeartbeatExit
  \/ TaskStartBegin \/ TaskStartFinish \/ TaskStopBegin \/ TaskStopTimeout
  \/ TaskStopFinish
  \/ SupStart \/ SupStartGather \/ SupStopBegin \/ SupStopGather \/ SupReturn
  \/ SupPause \/ SupResume
  \/ HealthLoopTick \/ HealthLoopCheck \/ RestartStopDone \/ RestartCooldownDone
  \/ RestartStartDone

SpecSup == SupInit /\ [][NextSup]_vars

NextNoRestart ==
  \/ RunLoopTop \/ RunLoopResume \/ WorkReturns \/ WorkRaises \/ BackoffElapsed
  \/ HeartbeatExit
  \/ TaskStartBegin \/ TaskStartFinish \/ TaskStopBegin \/ TaskStopTimeout
  \/ TaskStopFinish
  \/ SupStart \/ SupStartGather \/ SupStopBegin \/ SupStopGather \/ SupReturn
  \/ SupPause \/ SupResume
  \/ HealthLoopTick \/ HealthLoopCheck

SpecNoRestart == InitNoRestart /\ [][NextNoRestart]_vars

\* the first Worker's work always fails, the second Worker's work always
\* succeeds, and no health check falls due (the check interval is 30 s)
WorkRaisesFirst ==
  \E t \in Slots : WorkRaisesW("w1", t, <<1, 1>>) /\ UNCHANGED <<svars, bvars>>
WorkReturnsSecond == \E t \in Slots : WorkReturnsW("w2", t) /\ UNCHANGED <<svars, bvars>>

NextRollback ==
  \/ RunLoopTop \/ RunLoopResume \/ WorkReturnsSecond \/ WorkRaisesFirst
  \/ HeartbeatExit
  \/ TaskStartBegin \/ TaskStartFinish \/ TaskStopBegin \/ TaskStopTimeout
  \/ TaskStopFinish
  \/ SupStart \/ SupStartGather \/ SupStopBegin \/ SupStopGather \/ SupReturn
  \/ SupPause \/ SupResume

SpecRollback == InitRollback /\ [][NextRollback]_vars

(* ------- a running Supervisor whose health-check loop is scheduled ------ *)
\* the health-check sleep ends, the scan goes on, and the stop()/start()
\* calls of a restart make progress (timeout of stop(), hooks returning)
HealthProgress ==
  \/ HealthLoopTick \/ HealthLoopCheck \/ RestartStopDone \/ RestartCooldownDone
  \/ RestartStartDone
RestartCalls ==
  \E w \in Workers, h \in 1..MaxHealth :
     (\/ StopTimeoutW(w, HName(h)) \/ StopFinishW(w, HName(h), TRUE)
      \/ StartFinishW(w, HName(h), TRUE)) /\ UNCHANGED <<svars, bvars>>

\* a Supervisor of one Worker, auto-restart enabled, one restart allowed
InitRestart ==
  /\ retry_config = SupRetryConfig
  /\ WorkerInit
  /\ SupInitWith([auto_restart |-> TRUE, max_restart_attempts |-> 1, agents |-> <<"w1">>])

\* the Supervisor is started, paused and resumed, and never stopped
NextRestart ==
  \/ RunLoopTop \/ RunLoopResume \/ WorkReturns \/ WorkRaises \/ BackoffElapsed
  \/ HeartbeatExit
  \/ TaskStartBegin \/ TaskStartFinish \/ TaskStopTimeout \/ TaskStopFinish
  \/ SupStart \/ SupStartGather \/ SupReturn
  \/ SupPause \/ SupResume
  \/ HealthLoopTick \/ HealthLoopCheck \/ RestartStopDone \/ RestartCooldownDone
  \/ RestartStartDone

SpecRestart ==
  /\ InitRestart
  /\ [][NextRestart]_vars
  /\ WF_vars(HealthProgress)
  /\ WF_vars(RestartCalls)

(* ------- a Supervisor whose Workers' shutdown hooks may raise ----------- *)
\* _on_stop or the deregistration raises (ok FALSE) or not
TaskStopFinishAny ==
  \E w \in Workers, c \in SupCallers, ok \in BOOLEAN :
     StopFinishW(w, c, ok) /\ UNCHANGED <<svars, bvars>>

NextStopFails ==
  \/ RunLoopTop \/ RunLoopResume \/ WorkReturns \/ WorkRaises \/ BackoffElapsed
  \/ HeartbeatExit
  \/ TaskStartBegin \/ TaskStartFinish \/ TaskStopBegin \/ TaskStopTimeout
  \/ TaskStopFinishAny
  \/ SupStart \/ SupStartGather \/ SupStopBegin \/ SupStopGather \/ SupReturn
  \/ SupPause \/ SupResume
  \/ HealthLoopTick \/ HealthLoopCheck

SpecStopFails == InitNoRestart /\ [][NextStopFails]_vars

(* ------------------------- Supervisor.get_status ------------------------ *)
\* orchestrator.py:410-431 with base_agent.py:442-463 and event_bus.py:374-382:
\* the returned dictionary (the state of the Supervisor, of every Worker, a
\* copy of the restart counts, the running flag of the bus)
StatusOf ==
  [orchestrator_state |-> sup_state,
   agents |-> [w \in Agents |-> state[w]],
   restart_counts |-> restart_counts,
   event_bus_running |-> bus_running]

\* get_status() assigns no attribute of the Supervisor, of a Worker or of
\* the bus; the mutated variant counts the call as a restart
StatusFrameCountsCall ==
  /\ restart_counts' = [w \in Workers |-> 1]
  /\ UNCHANGED <<wvars, sup_config, sup_state, sup_shutdown, agents_created, health,
                 cur_health, api, sys_error_events, restart_attempts, forever, bvars>>
StatusFrame ==
  UNCHANGED <<wvars, sup_config, sup_state, sup_shutdown, agents_created, restart_counts,
              health, cur_health, api, sys_error_events, restart_attempts, forever, bvars>>

\* orchestrator.py:408-431: a synchronous call, possible between any two steps
SupGetStatus ==
  /\ sup_status' = StatusOf
  /\ StatusFrame

\* a Supervisor of one Worker that does not retry, auto-restart disabled
InitStatus ==
  /\ retry_config = [SupRetryConfig EXCEPT !.max_retries = 0]
  /\ WorkerInit
  /\ SupInitWith([auto_restart |-> FALSE, max_restart_attempts |-> 0, agents |-> <<"w1">>])

\* no health check falls due
NextStatus ==
  \/ RunLoopTop \/ RunLoopResume \/ WorkReturns \/ WorkRaises
  \/ HeartbeatExit
  \/ TaskStartBegin \/ TaskStartFinish \/ TaskStopBegin \/ TaskStopTimeout
  \/ TaskStopFinish
  \/ SupStart \/ SupStartGather \/ SupStopBegin \/ SupStopGather \/ SupReturn
  \/ SupPause \/ SupResume
  \/ SupGetStatus

SpecStatus == InitStatus /\ [][NextStatus]_vars

(* ------------------------- Supervisor.run_forever ----------------------- *)
\* orchestrator.py:438: run_forever() awaits start()
ForeverCall ==
  /\ forever = "none"
  /\ \E initOk \in BOOLEAN : SupStartBegin(initOk)
  /\ forever' = "start"

\* orchestrator.py:438-440, 455-457: start() has returned; on False
\* run_forever() returns, on True it waits for the shutdown signal
ForeverStartReturns ==
  /\ forever = "start"
  /\ api.pc = "ret"
  /\ api' = NoApi
  /\ forever' = IF api.ok THEN "wait" ELSE "done"
  /\ UNCHANGED <<wvars, sup_config, sup_status, bvars, sup_state, sup_shutdown, agents_created,
                 restart_counts, health, cur_health, sys_error_events, restart_attempts>>

\* orchestrator.py:444-452: SIGTERM or SIGINT arrives, the handler sets the
\* shutdown signal
ForeverSignal ==
  /\ forever = "wait"
  /\ ~sup_shutdown
  /\ sup_shutdown' = TRUE
  /\ UNCHANGED <<wvars, sup_config, sup_status, forever, bvars, sup_state, agents_created,
                 restart_counts, health, cur_health, api, sys_error_events,
                 restart_attempts>>

\* orchestrator.py:456-457: the wait is over as soon as the signal is set
ForeverWakes ==
  /\ forever = "wait"
  /\ sup_shutdown
  /\ forever' = "woken"
  /\ UNCHANGED <<wvars, sup_config, sup_status, bvars, sup_state, sup_shutdown, agents_created,
                 restart_counts, health, cur_health, api, sys_error_events,
                 restart_attempts>>

\* orchestrator.py:460-461 with 236-261: the finally clause awaits stop()
ForeverStop ==
  /\ forever = "woken"
  /\ api.op = "none"
  /\ forever' = "stop"
  /\ IF sup_state = "stopped"
     THEN /\ api' = ApiReturn("stop", TRUE, {})
          /\ UNCHANGED <<wvars, sup_config, sup_status, bvars, sup_state, sup_shutdown, agents_created,
                         restart_counts, health, cur_health, sys_error_events,
                         restart_attempts>>
     ELSE StopCore("stop", {})

\* orchestrator.py:461: stop() has returned and run_forever() returns
ForeverStopReturns ==
  /\ forever = "stop"
  /\ api.pc = "ret"
  /\ api' = NoApi
  /\ forever' = "done"
  /\ UNCHANGED <<wvars, sup_config, sup_status, bvars, sup_state, sup_shutdown, agents_created,
                 restart_counts, health, cur_health, sys_error_events, restart_attempts>>

\* the stop() and start() tasks of the Workers make progress, and so do the
\* start() and stop() of the Supervisor and run_forever()
StopProgress == TaskStopBegin \/ TaskStopTimeout \/ TaskStopFinishAny
StartProgress == TaskStartBegin \/ TaskStartFinish
ForeverProgress == ForeverStartReturns \/ ForeverWakes \/ ForeverStopReturns

\* run_forever() of a Supervisor of one Worker that does not retry, with
\* auto-restart disabled, a shutdown hook that may raise, and other callers
\* that pause, resume and stop the Supervisor; no health check falls due,
\* and the heartbeat loop ends by the cancellation in the Worker's stop()
NextForever ==
  \/ RunLoopTop \/ RunLoopResume \/ WorkReturns \/ WorkRaises
  \/ TaskStartBegin \/ TaskStartFinish \/ TaskStopBegin \/ TaskStopTimeout
  \/ TaskStopFinishAny
  \/ SupStartGather \/ SupStopBegin \/ SupStopGather \/ SupReturn
  \/ SupPause \/ SupResume
  \/ ForeverCall \/ ForeverStartReturns \/ ForeverSignal \/ ForeverWakes
  \/ ForeverStop \/ ForeverStopReturns

SpecForever ==
  /\ InitStatus
  /\ [][NextForever]_vars
  /\ WF_vars(StopProgress)
  /\ WF_vars(StartProgress)
  /\ WF_vars(SupStartGather)
  /\ WF_vars(SupStopGather)
  /\ WF_vars(SupReturn)
  /\ WF_vars(ForeverProgress)
  /\ SF_vars(ForeverStop)

(* ------------------------- Event Bus: operations ------------------------ *)
\* the variables of the Workers and of the Supervisor, untouched by the bus
agentvars == <<wvars, svars>>

\* stop() is at the top of its drain loop and has not suspended: no other
\* task runs before it suspends or halts the bus
StopRunning == bus_stop.pc = "drain"

SubIds == {bus_subs[i].id : i \in 1..Len(bus_subs)}
SubIndex(s) == CHOOSE i \in 1..Len(bus_subs) : bus_subs[i].id = s
Range(q) == {q[i] : i \in 1..Len(q)}

\* event_bus.py:160  del self._subscriptions[subscriber_id]
WithoutSubKept(subs, s) == subs
WithoutSub(subs, s) ==
  SubSeq(subs, 1, SubIndex(s) - 1) \o SubSeq(subs, SubIndex(s) + 1, Len(subs))

\* event_bus.py:116-147: a dict assignment, an existing key keeps its place
BusSubscribe(s, kinds, is_async, filter) ==
  /\ ~StopRunning
  /\ LET sub == [id |-> s, kinds |-> kinds, is_async |-> is_async, filter |-> filter] IN
     bus_subs' = IF s \in SubIds THEN [bus_subs EXCEPT ![SubIndex(s)] = sub]
                 ELSE Append(bus_subs, sub)
  /\ bus_unsub' = [bus_unsub EXCEPT ![s] = -1]
  /\ UNCHANGED <<agentvars, bus_events, bus_queue, bus_enq, bus_putters, bus_rejected,
                 bus_running, bus_proc, bus_stop, bus_history, bus_inv, bus_delivered,
                 bus_query>>

\* event_bus.py:149-163: a known id is removed and True returned; an unknown
\* id returns False and changes nothing
BusUnsubscribe(s) ==
  /\ ~StopRunning
  /\ s \in SubIds
  /\ bus_subs' = WithoutSub(bus_subs, s)
  /\ bus_unsub' = [bus_unsub EXCEPT ![s] = Len(bus_events)]
  /\ UNCHANGED <<agentvars, bus_events, bus_queue, bus_enq, bus_putters, bus_rejected,
                 bus_running, bus_proc, bus_stop, bus_history, bus_inv, bus_delivered,
                 bus_query>>

\* asyncio.Queue(maxsize).full()
QueueFull == Len(bus_queue) >= MaxQueueSize

NewEvent(kind, source, corr) == [kind |-> kind, source |-> source, corr |-> corr]

\* event_bus.py:186-201: the Event is built, then await self._event_queue.put:
\* with room the event is enqueued at once, without room the call suspends
\* until there is room (Queue.put never raises QueueFull)
BusPublish(kind, source, corr) ==
  /\ ~StopRunning
  /\ Len(bus_events) < MaxEvents
  /\ bus_events' = Append(bus_events, NewEvent(kind, source, corr))
  /\ LET e == Len(bus_events) + 1 IN
     IF QueueFull
     THEN /\ bus_putters' = bus_putters \cup {e}
          /\ UNCHANGED <<bus_queue, bus_enq>>
     ELSE /\ bus_queue' = Append(bus_queue, e)
          /\ bus_enq' = Append(bus_enq, e)
          /\ UNCHANGED bus_putters
  /\ UNCHANGED <<agentvars, bus_subs, bus_rejected, bus_running, bus_proc, bus_stop,
                 bus_history, bus_inv, bus_delivered, bus_unsub, bus_query>>

\* the callbacks suspended in the put of event e (an event published by a
\* callback carries the subscription id as its source)
PuttingFor(e) ==
  {x \in EventIds \X Subs : bus_inv[x[1]][x[2]] = "putting" /\ bus_events[e].source = x[2]}

\* event_bus.py:195-196: a suspended put resumes once there is room; a
\* callback that was suspended in it goes on (the put of a cancelled
\* callback never resumes)
BusPutResumes(e) ==
  /\ ~StopRunning
  /\ e \in bus_putters
  /\ ~QueueFull
  /\ bus_events[e].source \in Subs => PuttingFor(e) # {}
  /\ bus_putters' = bus_putters \ {e}
  /\ bus_queue' = Append(bus_queue, e)
  /\ bus_enq' = Append(bus_enq, e)
  /\ bus_inv' = [x \in EventIds |-> [s \in Subs |->
                   IF <<x, s>> \in PuttingFor(e) THEN "running" ELSE bus_inv[x][s]]]
  /\ UNCHANGED <<agentvars, bus_subs, bus_events, bus_rejected, bus_running, bus_proc,
                 bus_stop, bus_history, bus_delivered, bus_unsub, bus_query>>

\* event_bus.py:203-230: put_nowait raises QueueFull, turned into RuntimeError
BusPublishSync(kind, source, corr) ==
  /\ ~StopRunning
  /\ Len(bus_events) < MaxEvents
  /\ bus_events' = Append(bus_events, NewEvent(kind, source, corr))
  /\ LET e == Len(bus_events) + 1 IN
     IF QueueFull
     THEN /\ bus_rejected' = bus_rejected \cup {e}
          /\ UNCHANGED <<bus_queue, bus_enq>>
     ELSE /\ bus_queue' = Append(bus_queue, e)
          /\ bus_enq' = Append(bus_enq, e)
          /\ UNCHANGED bus_rejected
  /\ UNCHANGED <<agentvars, bus_subs, bus_putters, bus_running, bus_proc, bus_stop,
                 bus_history, bus_inv, bus_delivered, bus_unsub, bus_query>>

(* ------------------------- Event Bus: dispatch -------------------------- *)
\* event_bus.py:242-246: the event type is subscribed to and the filter,
\* if any, accepts the event (a filter_func accepts the events of one source)
Matches(sub, ev) ==
  /\ ev.kind \in sub.kinds
  /\ sub.filter = "-" \/ sub.filter = ev.source

\* a filter_func that raises on every event it is called with
RaisingFilter == "!"

\* event_bus.py:242-245: the filter is called, and raises, once the event
\* type is found among the subscription's types
FilterRaises(sub, ev) == ev.kind \in sub.kinds /\ sub.filter = RaisingFilter
FilterRaised(e) == \E i \in 1..Len(bus_subs) : FilterRaises(bus_subs[i], bus_events[e])

\* event_bus.py:241-245: the subscriptions the loop of _process_event gets
\* through: the exception of a filter is not caught in _process_event, so
\* the loop ends at the first subscription whose filter raises
Examined(e) ==
  LET r == {i \in 1..Len(bus_subs) : FilterRaises(bus_subs[i], bus_events[e])} IN
  IF r = {} THEN bus_subs
  ELSE SubSeq(bus_subs, 1, (CHOOSE i \in r : \A j \in r : i <= j) - 1)

\* the matching subscriptions in the order of the dict
MatchingFirstOnly(e) ==
  LET m == SelectSeq(bus_subs, LAMBDA sub : Matches(sub, bus_events[e])) IN
  IF m = <<>> THEN m ELSE <<Head(m)>>
Matching(e) == SelectSeq(Examined(e), LAMBDA sub : Matches(sub, bus_events[e]))

SyncIds(m) == {m[i].id : i \in {j \in 1..Len(m) : ~m[j].is_async}}
AsyncIds(m) == {m[i].id : i \in {j \in 1..Len(m) : m[j].is_async}}

\* event_bus.py:248-257 and 262-272: the subscriptions of m whose callback is
\* reached when the sync callbacks of `raisers` raise; every exception of a
\* callback is caught where it is called, so all of them are
ReachedUntilRaise(m, raisers) ==
  LET first == {i \in 1..Len(m) : m[i].id \in raisers} IN
  IF first = {} THEN m
  ELSE SubSeq(m, 1, CHOOSE i \in first : \A j \in first : i <= j)
Reached(m, raisers) == m

\* event_bus.py:234-237: the history keeps the newest _max_history_size events
TrimHistory(h) ==
  IF Len(h) > MaxHistorySize THEN SubSeq(h, Len(h) - MaxHistorySize + 1, Len(h)) ELSE h

\* the subscribers of event e for which a callback task is created
TasksOf(e, raisers) == AsyncIds(Reached(Matching(e), raisers))

\* event_bus.py:232-257: _process_event up to its gather: the event enters
\* the history, sync callbacks run inline, async callbacks become tasks
DispatchEvent(e, raisers) ==
  LET m == Matching(e)
      r == Reached(m, raisers) IN
  /\ raisers \subseteq SyncIds(m)
  /\ bus_history' = TrimHistory(Append(bus_history, e))
  /\ bus_inv' = [bus_inv EXCEPT ![e] =
       [s \in Subs |-> IF s \in AsyncIds(r) THEN "created"
                       ELSE IF s \in SyncIds(r)
                            THEN (IF s \in raisers THEN "raised" ELSE "done")
                            ELSE @[s]]]
  /\ bus_delivered' = [bus_delivered EXCEPT ![e] =
       [s \in Subs |-> IF s \in SyncIds(r) THEN @[s] + 1 ELSE @[s]]]

\* the callback tasks gathered for event e have all ended
Gathered(e) == \A s \in Subs : bus_inv[e][s] \notin {"created", "running", "putting"}

\* event_bus.py:278-285: the processor takes the oldest event and dispatches
\* it; with callback tasks it suspends in the gather; the exception of a
\* filter skips the gather and is logged by the processor (291-292), which
\* goes on with its next turn
ProcGet(raisers) ==
  /\ ~StopRunning
  /\ bus_proc.pc = "wait"
  /\ bus_queue # <<>>
  /\ LET e == Head(bus_queue) IN
     /\ DispatchEvent(e, raisers)
     /\ bus_proc' = IF TasksOf(e, raisers) # {} /\ ~FilterRaised(e)
                    THEN [pc |-> "gather", ev |-> e]
                    ELSE bus_proc
  /\ bus_queue' = Tail(bus_queue)
  /\ UNCHANGED <<agentvars, bus_subs, bus_events, bus_enq, bus_putters, bus_rejected,
                 bus_running, bus_stop, bus_unsub, bus_query>>

\* event_bus.py:259-260 and 283-284: the gather returns, task_done, next turn
ProcGatherDone ==
  /\ ~StopRunning
  /\ bus_proc.pc = "gather"
  /\ Gathered(bus_proc.ev)
  /\ bus_proc' = [pc |-> "wait", ev |-> 0]
  /\ UNCHANGED <<agentvars, bus_subs, bus_events, bus_queue, bus_enq, bus_putters,
                 bus_rejected, bus_running, bus_stop, bus_history, bus_inv,
                 bus_delivered, bus_unsub, bus_query>>

\* event_bus.py:262-272: a callback task runs: the callback is entered and
\* suspends, returns or raises (the exception is logged)
CallbackEnter(e, s, out) ==
  /\ ~StopRunning
  /\ bus_inv[e][s] = "created"
  /\ out \in {"running", "done", "raised"}
  /\ bus_inv' = [bus_inv EXCEPT ![e][s] = out]
  /\ bus_delivered' = [bus_delivered EXCEPT ![e][s] = @ + 1]
  /\ UNCHANGED <<agentvars, bus_subs, bus_events, bus_queue, bus_enq, bus_putters,
                 bus_rejected, bus_running, bus_proc, bus_stop, bus_history,
                 bus_unsub, bus_query>>

\* a suspended callback resumes and returns or raises
CallbackFinish(e, s, out) ==
  /\ ~StopRunning
  /\ bus_inv[e][s] = "running"
  /\ out \in {"done", "raised"}
  /\ bus_inv' = [bus_inv EXCEPT ![e][s] = out]
  /\ UNCHANGED <<agentvars, bus_subs, bus_events, bus_queue, bus_enq, bus_putters,
                 bus_rejected, bus_running, bus_proc, bus_stop, bus_history,
                 bus_delivered, bus_unsub, bus_query>>

\* event_bus.py:186-196 called from a callback (await callback(event),
\* event_bus.py:267): a suspended callback publishes an event of its own;
\* with room the event is enqueued and the callback goes on, without room
\* the callback stays suspended in Queue.put until there is room
CallbackPublish(e, s, kind) ==
  /\ ~StopRunning
  /\ bus_inv[e][s] = "running"
  /\ Len(bus_events) < MaxEvents + MaxCallbackEvents
  /\ bus_events' = Append(bus_events, NewEvent(kind, s, "-"))
  /\ LET n == Len(bus_events) + 1 IN
     IF QueueFull
     THEN /\ bus_putters' = bus_putters \cup {n}
          /\ bus_inv' = [bus_inv EXCEPT ![e][s] = "putting"]
          /\ UNCHANGED <<bus_queue, bus_enq>>
     ELSE /\ bus_queue' = Append(bus_queue, n)
          /\ bus_enq' = Append(bus_enq, n)
          /\ UNCHANGED <<bus_putters, bus_inv>>
  /\ UNCHANGED <<agentvars, bus_subs, bus_rejected, bus_running, bus_proc, bus_stop,
                 bus_history, bus_delivered, bus_unsub, bus_query>>

(* ------------------------- Event Bus: start and stop -------------------- *)
\* event_bus.py:296-303; a call while running returns at once
BusStart ==
  /\ ~StopRunning
  /\ ~bus_running
  /\ bus_running' = TRUE
  /\ bus_proc' = [pc |-> "wait", ev |-> 0]
  /\ UNCHANGED <<agentvars, bus_subs, bus_events, bus_queue, bus_enq, bus_putters,
                 bus_rejected, bus_stop, bus_history, bus_inv, bus_delivered,
                 bus_unsub, bus_query>>

\* event_bus.py:323-330: _running is cleared and the processor task is
\* cancelled; a processor suspended in its gather passes the cancellation
\* on to the callback tasks it gathers; stop() then awaits the processor
HaltInv ==
  IF bus_proc.pc = "gather"
  THEN [bus_inv EXCEPT ![bus_proc.ev] =
          [s \in Subs |-> IF @[s] \in {"created", "running", "putting"} THEN "cancelled"
                          ELSE @[s]]]
  ELSE bus_inv

Halt(drain, seen) ==
  /\ bus_running' = FALSE
  /\ bus_proc' = [pc |-> "done", ev |-> 0]
  /\ bus_inv' = HaltInv
  /\ bus_stop' = [pc |-> "await", drain |-> drain, ev |-> 0, seen |-> seen, left |-> {}]

\* event_bus.py:305-321: stop() is called on a running bus (on a stopped bus
\* it returns at once); seen: the events accepted so far
BusStopBegin(drain) ==
  /\ bus_stop.pc = "none"
  /\ bus_running
  /\ IF drain
     THEN /\ bus_stop' = [pc |-> "drain", drain |-> TRUE, ev |-> 0,
                          seen |-> Range(bus_enq), left |-> {}]
          /\ UNCHANGED <<bus_running, bus_proc, bus_inv>>
     ELSE Halt(FALSE, Range(bus_enq))
  /\ UNCHANGED <<agentvars, bus_subs, bus_events, bus_queue, bus_enq, bus_putters,
                 bus_rejected, bus_history, bus_delivered, bus_unsub, bus_query>>

\* event_bus.py:315-321: one turn of the drain loop; the loop ends on an
\* empty queue and the bus is halted; the exception of a filter leaves
\* stop() at once, with the bus still running
StopDrain(raisers) ==
  /\ bus_stop.pc = "drain"
  /\ IF bus_queue = <<>>
     THEN /\ raisers = {}
          /\ Halt(TRUE, bus_stop.seen)
          /\ UNCHANGED <<bus_queue, bus_history, bus_delivered>>
     ELSE LET e == Head(bus_queue) IN
          /\ DispatchEvent(e, raisers)
          /\ bus_queue' = Tail(bus_queue)
          /\ bus_stop' = IF FilterRaised(e) THEN [bus_stop EXCEPT !.pc = "none"]
                         ELSE IF TasksOf(e, raisers) # {}
                         THEN [bus_stop EXCEPT !.pc = "gather", !.ev = e]
                         ELSE bus_stop
          /\ UNCHANGED <<bus_running, bus_proc>>
  /\ UNCHANGED <<agentvars, bus_subs, bus_events, bus_enq, bus_putters, bus_rejected,
                 bus_unsub, bus_query>>

\* event_bus.py:319-320: the gather of the drained event returns
StopGatherDone ==
  /\ bus_stop.pc = "gather"
  /\ Gathered(bus_stop.ev)
  /\ bus_stop' = [bus_stop EXCEPT !.pc = "drain", !.ev = 0]
  /\ UNCHANGED <<agentvars, bus_subs, bus_events, bus_queue, bus_enq, bus_putters,
                 bus_rejected, bus_running, bus_proc, bus_history, bus_inv,
                 bus_delivered, bus_unsub, bus_query>>

\* event_bus.py:327-333: the cancelled processor has ended, stop() returns;
\* left: the events still queued when a stop(drain=False) returns
BusStopReturn ==
  /\ bus_stop.pc = "await"
  /\ bus_stop' = [bus_stop EXCEPT !.pc = "none",
                    !.left = IF bus_stop.drain THEN {} ELSE Range(bus_queue)]
  /\ UNCHANGED <<agentvars, bus_subs, bus_events, bus_queue, bus_enq, bus_putters,
                 bus_rejected, bus_running, bus_proc, bus_history, bus_inv,
                 bus_delivered, bus_unsub, bus_query>>

(* ------------------------- Event Bus: history --------------------------- *)
Max(a, b) == IF a >= b THEN a ELSE b

\* event_bus.py:363  events[-limit:]; -0 is 0, so limit 0 slices from the start
PySliceLast(q, limit) ==
  IF limit = 0 THEN q
  ELSE IF limit > 0 THEN SubSeq(q, Max(1, Len(q) - limit + 1), Len(q))
  ELSE SubSeq(q, (IF -limit < Len(q) THEN -limit ELSE Len(q)) + 1, Len(q))

\* event_bus.py:354-361: a filter that is None ("-") is not applied
FilterHistory(kind, source, corr) ==
  LET byKind == IF kind # "-"
                THEN SelectSeq(bus_history, LAMBDA e : bus_events[e].kind = kind)
                ELSE bus_history
      bySource == IF source # "-"
                  THEN SelectSeq(byKind, LAMBDA e : bus_events[e].source = source)
                  ELSE byKind
  IN IF corr # "-"
     THEN SelectSeq(bySource, LAMBDA e : bus_events[e].corr = corr)
     ELSE bySource

\* event_bus.py:335-363
GetEventHistory(kind, source, corr, limit) ==
  PySliceLast(FilterHistory(kind, source, corr), limit)

BusQuery(kind, source, corr, limit) ==
  /\ ~StopRunning
  /\ bus_query' = [kind |-> kind, source |-> source, corr |-> corr, limit |-> limit,
                   result |-> GetEventHistory(kind, source, corr, limit)]
  /\ UNCHANGED <<agentvars, bus_subs, bus_events, bus_queue, bus_enq, bus_putters,
                 bus_rejected, bus_running, bus_proc, bus_stop, bus_history, bus_inv,
                 bus_delivered, bus_unsub>>

(* ------------------------- Event Bus with its callers ------------------- *)
\* the Workers and the Supervisor are not started
InitBus ==
  /\ retry_config = SupRetryConfig
  /\ WorkerInit
  /\ SupInitWith([auto_restart |-> TRUE, max_restart_attempts |-> 1, agents |-> <<>>])

\* subscriptions to the first event kind, sync or async, without a filter
Subscribe == \E s \in Subs, a \in BOOLEAN : BusSubscribe(s, {"k1"}, a, "-")
Unsubscribe == \E s \in Subs : BusUnsubscribe(s)
Publish == \E k \in Kinds : BusPublish(k, "a", "-")
PublishSync == \E k \in Kinds : BusPublishSync(k, "a", "-")
PutResumes == \E e \in EventIds : BusPutResumes(e)
StartBus == BusStart
StopBus == \E drain \in BOOLEAN : BusStopBegin(drain)
Drain == \E raisers \in SUBSET Subs : StopDrain(raisers)
DrainGatherDone == StopGatherDone
StopReturns == BusStopReturn
ProcessorGet == \E raisers \in SUBSET Subs : ProcGet(raisers)
ProcessorGatherDone == ProcGatherDone
CallbackEnters ==
  \E e \in EventIds, s \in Subs, out \in {"running", "done", "raised"} :
     CallbackEnter(e, s, out)
CallbackFinishes ==
  \E e \in EventIds, s \in Subs, out \in {"done", "raised"} : CallbackFinish(e, s, out)

NextBus ==
  \/ Subscribe \/ Unsubscribe \/ Publish \/ PublishSync \/ PutResumes
  \/ StartBus \/ StopBus \/ Drain \/ DrainGatherDone \/ StopReturns
  \/ ProcessorGet \/ ProcessorGatherDone \/ CallbackEnters \/ CallbackFinishes

SpecBus == InitBus /\ [][NextBus]_vars

(* ------------- a running bus with one subscription per subscriber ------- *)
\* every subscriber has subscribed to the first event kind (sync or async
\* callback, no filter) and start() has been called
InitBusLive ==
  /\ retry_config = SupRetryConfig
  /\ WorkerInit
  /\ sup_config = [auto_restart |-> TRUE, max_restart_attempts |-> 1, agents |-> <<>>]
  /\ sup_state = "stopped"
  /\ sup_status = NoStatus
  /\ forever = "none"
  /\ sup_shutdown = FALSE
  /\ agents_created = FALSE
  /\ restart_counts = [w \in Workers |-> 0]
  /\ health = [h \in 1..MaxHealth |-> NoHealth]
  /\ cur_health = 0
  /\ api = NoApi
  /\ sys_error_events = [w \in Workers |-> 0]
  /\ restart_attempts = [w \in Workers |-> 0]
  /\ \E a1 \in BOOLEAN, a2 \in BOOLEAN :
       bus_subs = <<[id |-> "s1", kinds |-> {"k1"}, is_async |-> a1, filter |-> "-"],
                    [id |-> "s2", kinds |-> {"k1"}, is_async |-> a2, filter |-> "-"]>>
  /\ bus_events = <<>>
  /\ bus_queue = <<>>
  /\ bus_enq = <<>>
  /\ bus_putters = {}
  /\ bus_rejected = {}
  /\ bus_running = TRUE
  /\ bus_proc = [pc |-> "wait", ev |-> 0]
  /\ bus_stop = NoStop
  /\ bus_history = <<>>
  /\ bus_inv = [e \in EventIds |-> [s \in Subs |-> "none"]]
  /\ bus_delivered = [e \in EventIds |-> [s \in Subs |-> 0]]
  /\ bus_unsub = [s \in Subs |-> -1]
  /\ bus_query = NoQuery

PublishFirstKind == BusPublish("k1", "a", "-")

NextBusLive ==
  \/ PublishFirstKind \/ PutResumes
  \/ ProcessorGet \/ ProcessorGatherDone \/ CallbackEnters \/ CallbackFinishes

\* the event loop runs every task that is ready, and callbacks come to an end
SpecBusLive ==
  /\ InitBusLive
  /\ [][NextBusLive]_vars
  /\ WF_vars(PutResumes)
  /\ WF_vars(ProcessorGet)
  /\ WF_vars(ProcessorGatherDone)
  /\ WF_vars(CallbackEnters)
  /\ WF_vars(CallbackFinishes)

(* ------------- a running bus whose callbacks publish events ------------- *)
CallbackPublishes == \E e \in EventIds, s \in Subs : CallbackPublish(e, s, "k1")

NextBusCallbacks ==
  \/ PublishFirstKind \/ PutResumes \/ CallbackPublishes
  \/ ProcessorGet \/ ProcessorGatherDone \/ CallbackEnters \/ CallbackFinishes

\* as SpecBusLive; a callback publishes or not as it chooses
SpecBusCallbacks ==
  /\ InitBusLive
  /\ [][NextBusCallbacks]_vars
  /\ WF_vars(PutResumes)
  /\ WF_vars(ProcessorGet)
  /\ WF_vars(ProcessorGatherDone)
  /\ WF_vars(CallbackEnters)
  /\ WF_vars(CallbackFinishes)

(* ------------- a running bus whose subscriptions have filters ----------- *)
\* every subscriber has subscribed to the first event kind with no filter,
\* a filter accepting one source, or a filter that raises
SubsWithFilters ==
  {<<[id |-> "s1", kinds |-> {"k1"}, is_async |-> a1, filter |-> f1],
     [id |-> "s2", kinds |-> {"k1"}, is_async |-> a2, filter |-> f2]>> :
     <<a1, a2, f1, f2>> \in BOOLEAN \X BOOLEAN \X {"-", "a", RaisingFilter}
                                              \X {"-", "a", RaisingFilter}}

InitBusFilters ==
  /\ retry_config = SupRetryConfig
  /\ WorkerInit
  /\ sup_config = [auto_restart |-> TRUE, max_restart_attempts |-> 1, agents |-> <<>>]
  /\ sup_state = "stopped"
  /\ sup_status = NoStatus
  /\ forever = "none"
  /\ sup_shutdown = FALSE
  /\ agents_created = FALSE
  /\ restart_counts = [w \in Workers |-> 0]
  /\ health = [h \in 1..MaxHealth |-> NoHealth]
  /\ cur_health = 0
  /\ api = NoApi
  /\ sys_error_events = [w \in Workers |-> 0]
  /\ restart_attempts = [w \in Workers |-> 0]
  /\ bus_subs \in SubsWithFilters
  /\ bus_events = <<>>
  /\ bus_queue = <<>>
  /\ bus_enq = <<>>
  /\ bus_putters = {}
  /\ bus_rejected = {}
  /\ bus_running = TRUE
  /\ bus_proc = [pc |-> "wait", ev |-> 0]
  /\ bus_stop = NoStop
  /\ bus_history = <<>>
  /\ bus_inv = [e \in EventIds |-> [s \in Subs |-> "none"]]
  /\ bus_delivered = [e \in EventIds |-> [s \in Subs |-> 0]]
  /\ bus_unsub = [s \in Subs |-> -1]
  /\ bus_query = NoQuery

PublishFromSource == \E src \in Sources : BusPublish("k1", src, "-")

NextBusFilters ==
  \/ PublishFromSource \/ PutResumes
  \/ ProcessorGet \/ ProcessorGatherDone \/ CallbackEnters \/ CallbackFinishes

\* the event loop runs every task that is ready, and callbacks come to an end
SpecBusFilters ==
  /\ InitBusFilters
  /\ [][NextBusFilters]_vars
  /\ WF_vars(PutResumes)
  /\ WF_vars(ProcessorGet)
  /\ WF_vars(ProcessorGatherDone)
  /\ WF_vars(CallbackEnters)
  /\ WF_vars(CallbackFinishes)

(* ------------------------- Event Bus: history queries -------------------- *)
\* events of every kind, source and correlation id are published to a bus
\* without subscribers, and the history is queried with every filter and
\* every limit from 0 up
Limits == 0..MaxEvents

PublishAny == \E k \in Kinds, src \in Sources, c \in Corrs : BusPublish(k, src, c)
ProcessorRecords == ProcGet({})
QueryHistory ==
  \E k \in Kinds \cup {"-"}, src \in Sources \cup {"-"}, c \in Corrs, l \in Limits :
     BusQuery(k, src, c, l)

NextHistory ==
  \/ PublishAny
  \/ PutResumes
  \/ StartBus
  \/ ProcessorRecords
  \/ QueryHistory

SpecHistory == InitBus /\ [][NextHistory]_vars

(* ======================= properties: Worker ============================= *)
Min(a, b) == IF a <= b THEN a ELSE b

\* the edges of the lifecycle machine; stop() has no guard other than
\* "already Stopped", so Stopping may be entered from every other state
LifecycleEdges ==
  {<<"idle", "starting">>, <<"stopped", "starting">>, <<"error", "starting">>,
   <<"starting", "running">>, <<"running", "paused">>, <<"paused", "running">>,
   <<"stopping", "stopped">>,
   <<"starting", "error">>, <<"running", "error">>, <<"stopping", "error">>,
   <<"running", "recovering">>, <<"recovering", "running">>, <<"recovering", "error">>}
  \cup {<<s, "stopping">> : s \in AgentState \ {"stopped", "stopping"}}

\* C1: every change of a Worker's state follows an edge of the lifecycle
\* machine, under every interleaving of start(), stop(), pause(), resume()
\* and the run loop's retry transitions.
C1_LifecycleEdgesOnly ==
  [][\A w \in Workers :
       state'[w] # state[w] => <<state[w], state'[w]>> \in LifecycleEdges]_vars

\* C2: when one execution of the retry procedure has exhausted its retries
\* (every attempt failed, no cancellation) and set the state to Error, the
\* unit of work was attempted exactly max_retries + 1 times in it.
C2_AttemptsBeforeError ==
  \A w \in Workers, t \in Slots :
    run_loop[w][t].last = "exhausted"
      => run_loop[w][t].calls = retry_config.max_retries + 1

C2_Witness ==
  \E t \in Slots :
    /\ run_loop[TheWorker][t].last = "exhausted"
    /\ run_loop[TheWorker][t].calls = 3
    /\ state[TheWorker] = "error"

\* the un-jittered delay d_k = min(max_delay, initial_delay * exponential_base^k)
BaseDelay(k) ==
  Min(retry_config.max_delay,
      retry_config.initial_delay * Pow(retry_config.exponential_base, k))

\* C3: with jitter disabled the wait after failure k (0-indexed) equals
\* min(max_delay, initial_delay * exponential_base^k) exactly; with
\* initial_delay=1 and exponential_base=2 the waits are 1 and then 2.
C3_BackoffDelayExact ==
  \A w \in Workers, t \in Slots :
    (run_loop[w][t].pc = "backoff" /\ ~retry_config.jitter)
      => FEq(run_loop[w][t].wait, Frac(BaseDelay(run_loop[w][t].attempt)))

C3_Witness ==
  \E t \in Slots :
    /\ ~retry_config.jitter
    /\ retry_config.max_retries = 2
    /\ retry_config.initial_delay = 1
    /\ retry_config.exponential_base = 2
    /\ run_loop[TheWorker][t].pc = "backoff"
    /\ run_loop[TheWorker][t].attempt = 1
    /\ run_loop[TheWorker][t].wait = Frac(2)

\* C4: with jitter enabled the wait after failure k is d_k times a factor
\* between 0.5 and 1.0, so it lies between d_k / 2 and d_k.
C4_JitterWithinHalfToFull ==
  \A w \in Workers, t \in Slots :
    (run_loop[w][t].pc = "backoff" /\ retry_config.jitter)
      => LET d == Frac(BaseDelay(run_loop[w][t].attempt)) IN
         /\ FLeq(run_loop[w][t].wait, d)
         /\ FLeq(d, FMul(Frac(2), run_loop[w][t].wait))

\* C5: once a Worker's state is Error, only a step of an external start()
\* or stop() call changes it; the Worker's own loops never do.
C5_ErrorIsTerminalForWorker ==
  [][\A w \in Workers :
       (state[w] = "error" /\ state'[w] # "error") => call'[w] # call[w]]_vars

\* C6: a started Worker with max_retries=2 whose work always fails, with no
\* further external start()/stop(): the work is attempted 3 times in total
\* (one execution of at most 3 attempts, no second execution is begun), one
\* AgentError event is published, and the state is Error from the
\* exhaustion on.
C6_ThreeAttemptsOneError ==
  \A w \in Workers :
    /\ total_runs[w] <= 1
    /\ \A t \in Slots : run_loop[w][t].calls <= 3
    /\ error_events[w] <= 1
    /\ \A t \in Slots : run_loop[w][t].last = "exhausted" => state[w] = "error"

(* ======================= properties: Supervisor ========================= *)
\* a Worker that is neither stopped nor failed
ActiveStates == {"starting", "running", "paused", "recovering"}

NoLoopLive(w) ==
  \A t \in Slots : ~LoopLive(run_loop[w][t]) /\ hb_loop[w][t] # "live"

\* C7: when Supervisor.start() returns after at least one Worker failed to
\* start, it returns failure, no Worker is in Starting, Running, Paused or
\* Recovering, no Worker loop is live and the Supervisor is not Running.
C7_FailedStartRollsBack ==
  [][(api.op = "start" /\ api.pc = "gather_stop" /\ api'.pc = "ret")
       => /\ ~api'.ok
          /\ sup_state' # "running"
          /\ \A w \in Agents :
               /\ state'[w] \notin ActiveStates
               /\ \A t \in Slots : /\ ~LoopLive(run_loop'[w][t])
                                   /\ hb_loop'[w][t] # "live"]_vars

\* a step in which health-check task h has examined a failed Worker (and was
\* not cancelled instead)
HandlesFailure(h) ==
  /\ health[h].pc = "scan"
  /\ AgentFailed(WorkerSeq[health[h].idx])
  /\ health'[h] # health[h]
  /\ health'[h].pc # "done"

\* a step in which the restart procedure of task h ends with start() returned
RestartEnds(h) ==
  /\ health[h].pc = "starting"
  /\ health'[h].pc \in {"scan", "sleep"}

\* C8: every restart attempt that runs to the end increases the Worker's
\* restart count by exactly one; the count never exceeds
\* max_restart_attempts and no more than max_restart_attempts restart
\* attempts are begun per Worker.
C8_RestartCountBoundsAttempts ==
  [][/\ \A h \in 1..MaxHealth :
          RestartEnds(h) =>
            LET w == WorkerSeq[health[h].idx] IN
            restart_counts'[w] = restart_counts[w] + 1
     /\ \A w \in Agents :
          /\ restart_counts'[w] <= sup_config.max_restart_attempts
          /\ restart_attempts'[w] <= sup_config.max_restart_attempts]_vars

\* C9: with max_restart_attempts=1, once one restart attempt has been made
\* for a Worker, a health check that finds it failed publishes a system
\* Error event and calls neither stop() nor start() on it, so no second
\* restart attempt is begun.
C9_OneRestartThenSystemError ==
  [][sup_config.max_restart_attempts = 1 =>
       \A h \in 1..MaxHealth :
         LET w == WorkerSeq[health[h].idx] IN
         (HandlesFailure(h) /\ restart_attempts[w] >= 1)
           => /\ sys_error_events'[w] = sys_error_events[w] + 1
              /\ call'[w] = call[w]
              /\ restart_attempts'[w] = restart_attempts[w]]_vars

\* C10: with auto_restart disabled, a health check that finds a Worker
\* failed publishes a system Error event, calls neither stop() nor start()
\* on the Worker and leaves its state and restart count unchanged.
C10_DisabledPublishesSystemError ==
  [][~sup_config.auto_restart =>
       \A h \in 1..MaxHealth :
         LET w == WorkerSeq[health[h].idx] IN
         HandlesFailure(h)
           => /\ sys_error_events'[w] = sys_error_events[w] + 1
              /\ call'[w] = call[w]
              /\ state'[w] = state[w]
              /\ restart_counts'[w] = restart_counts[w]]_vars

(* ======================= properties: Event Bus ========================== *)
\* the events queued or handed to a callback so far
Delivered(e) == \E s \in Subs : bus_inv[e][s] # "none"

\* C11: a publish that finds the bounded queue full fails with a queue-full
\* error and returns without waiting for space: no publish is ever suspended
\* waiting for room, and an event whose publish found the queue full is
\* neither queued nor delivered.
C11_PublishOnFullQueueFails ==
  /\ bus_putters = {}
  /\ \A e \in 1..Len(bus_events) :
       (e \in bus_rejected \/ e \in bus_putters)
         => e \notin Range(bus_enq) /\ ~Delivered(e)

\* C12: with the bus running and every subscriber subscribed to the kind,
\* each event accepted by publish is eventually handed exactly once to every
\* subscriber's callback: never more than once, and eventually once.
C12_EveryAcceptedEventDeliveredOnce ==
  /\ [](\A e \in EventIds, s \in Subs : bus_delivered[e][s] <= 1)
  /\ \A e \in EventIds :
       (e \in Range(bus_enq)) ~> (\A s \in Subs : bus_delivered[e][s] = 1)

C12_Witness ==
  /\ Len(bus_enq) = Cardinality(Subs)
  /\ \A e \in Range(bus_enq), s \in Subs : bus_delivered[e][s] = 1

\* C13: once unsubscribe(id) has returned True, the callback registered
\* under id is entered for no event published afterwards, until id
\* subscribes again.
C13_NoDeliveryAfterUnsubscribe ==
  [][\A e \in EventIds, s \in Subs :
       bus_delivered'[e][s] > bus_delivered[e][s]
         => ~(bus_unsub[s] >= 0 /\ e > bus_unsub[s])]_vars

\* a subscriber received the first event, unsubscribed, and a later event
\* of its kind was dispatched without it
C13_Witness ==
  \E s \in Subs, e \in EventIds :
    /\ bus_unsub[s] >= 1
    /\ bus_delivered[1][s] = 1
    /\ e > bus_unsub[s]
    /\ e \in Range(bus_history)
    /\ bus_events[e].kind = "k1"
    /\ bus_delivered[e][s] = 0

\* the step takes event e from the queue and dispatches it
Dispatches(e) ==
  /\ bus_queue # <<>>
  /\ e = Head(bus_queue)
  /\ bus_queue' = Tail(bus_queue)

\* C14: when a callback raises while an event is handled, every subscription
\* matching the event still has its callback called (sync) or its callback
\* task created (async); an exception in a callback task touches neither
\* the other callback tasks nor the dispatcher nor stop(); and the
\* processor of a running bus stays alive for the following events.
C14_CallbackFailureIsolated ==
  [][/\ \A e \in EventIds :
          (Dispatches(e) /\ \E s \in Subs : bus_inv'[e][s] = "raised")
            => \A i \in 1..Len(Matching(e)) : bus_inv'[e][Matching(e)[i].id] # "none"
     /\ \A e \in EventIds, s \in Subs :
          (bus_inv[e][s] \in {"created", "running"} /\ bus_inv'[e][s] = "raised")
            => /\ \A t \in Subs \ {s} : bus_inv'[e][t] = bus_inv[e][t]
               /\ bus_proc' = bus_proc
               /\ bus_stop' = bus_stop
     /\ bus_running' => bus_proc'.pc \in {"wait", "gather"}]_vars

\* the first of two sync subscribers raised on an event and the second was
\* still called
C14_Witness ==
  \E e \in EventIds :
    /\ Len(bus_subs) = 2
    /\ ~bus_subs[1].is_async /\ ~bus_subs[2].is_async
    /\ bus_inv[e][bus_subs[1].id] = "raised"
    /\ bus_inv[e][bus_subs[2].id] = "done"

\* a callback has been entered for event e
Begun(e) == \E s \in Subs : bus_delivered[e][s] > 0

\* event e has left the queue and none of its callbacks is pending or running
Completed(e) ==
  /\ e \notin Range(bus_queue)
  /\ \A s \in Subs : bus_inv[e][s] \notin {"created", "running"}

\* C15: events are dispatched one at a time in enqueue order: the processor
\* and the drain of stop() never have an event in dispatch at the same
\* time, and a callback for a later-enqueued event is entered only after
\* every callback for each earlier-enqueued event has ended.
C15_OneEventAtATimeInOrder ==
  /\ ~(bus_proc.pc = "gather" /\ bus_stop.pc = "gather")
  /\ \A i \in 1..Len(bus_enq), j \in 1..Len(bus_enq) :
       (i < j /\ Begun(bus_enq[j])) => Completed(bus_enq[i])

\* an event was accepted before stop() was called and has not been
\* dispatched to the end
Unfinished(e) ==
  \/ e \in Range(bus_queue)
  \/ \E s \in Subs : bus_inv[e][s] \in {"created", "running", "cancelled"}

\* C16: when stop(drain=True) returns, every event accepted before stop()
\* was called has been dispatched and each of its callback invocations has
\* run to completion, none was cancelled.
C16_DrainCompletesAcceptedEvents ==
  [][(bus_stop.pc = "await" /\ bus_stop'.pc = "none" /\ bus_stop.drain)
       => \A e \in bus_stop.seen : ~Unfinished(e)']_vars

\* C17: after stop(drain=False) has returned the queue is empty, and no
\* event that was unprocessed then is ever handed to a callback, also not
\* after a later start().
C17_NoDrainDiscardsQueue ==
  /\ [][(bus_stop.pc = "await" /\ bus_stop'.pc = "none" /\ ~bus_stop.drain)
          => bus_queue' = <<>>]_vars
  /\ [](\A e \in bus_stop.left : ~Delivered(e) /\ e \notin Range(bus_history))

\* event e passes every filter given in query q
PassesFilters(e, q) ==
  /\ q.kind # "-" => bus_events[e].kind = q.kind
  /\ q.source # "-" => bus_events[e].source = q.source
  /\ q.corr # "-" => bus_events[e].corr = q.corr

\* C18: a history query with limit L >= 0 and optional kind, source and
\* correlation id filters returns at most L events, each passing every
\* given filter, and they are the L newest recorded events passing the
\* filters, in publish order.
C18_HistoryReturnsLastL ==
  [][bus_query' # bus_query =>
       LET q == bus_query'
           m == SelectSeq(bus_history, LAMBDA e : PassesFilters(e, q))
           n == IF q.limit < Len(m) THEN q.limit ELSE Len(m)
       IN /\ Len(q.result) <= q.limit
          /\ \A i \in 1..Len(q.result) : PassesFilters(q.result[i], q)
          /\ q.result = SubSeq(m, Len(m) - n + 1, Len(m))]_vars

(* ------------------------- properties: Worker.start --------------------- *)
\* caller c enters start() of Worker w in this step
EntersStart(w, c) ==
  /\ call[w][c] = Pending(c, "start")
  /\ call'[w][c] # call[w][c]
  /\ call'[w][c].op = "start"

\* C19: start() called while the Worker is Starting, Running, Paused,
\* Recovering or Stopping returns failure and changes nothing: state,
\* shutdown and pause signals, loops, counters and the bus with its
\* subscriptions are left as they were.
C19_RejectedStartChangesNothing ==
  [][\A w \in Workers, c \in Callers :
       (EntersStart(w, c)
          /\ state[w] \in {"starting", "running", "paused", "recovering", "stopping"})
       => /\ call'[w][c] = [op |-> "start", pc |-> "ret", ok |-> FALSE]
          /\ UNCHANGED <<state, shutdown_event, pause_event, cur_task, run_loop,
                         hb_loop, last_heartbeat, total_runs, error_events, errors, bvars>>]_vars

\* a start() was refused on a paused Worker that never had an error
C19_Witness ==
  \E c \in CallerTasks :
    /\ call[TheWorker][c] = [op |-> "start", pc |-> "ret", ok |-> FALSE]
    /\ error_events[TheWorker] = 0
    /\ state[TheWorker] = "paused"

\* C20: when the startup hook or the subscription raises during start(),
\* start() returns failure, the Worker's state is Error, and no run loop
\* or heartbeat loop of the Worker is live afterwards.
C20_FailedStartLeavesNoLoops ==
  [][\A w \in Workers, c \in Callers :
       (/\ call[w][c] = [op |-> "start", pc |-> "hook", ok |-> FALSE]
        /\ call'[w][c] = [op |-> "start", pc |-> "ret", ok |-> FALSE])
       => /\ state'[w] = "error"
          /\ \A t \in Slots : ~LoopLive(run_loop'[w][t]) /\ hb_loop'[w][t] # "live"]_vars

(* ------------------------- properties: Worker.stop ---------------------- *)
\* caller c enters stop() of Worker w in this step
EntersStop(w, c) ==
  /\ call[w][c] = Pending(c, "stop")
  /\ call'[w][c] # call[w][c]
  /\ call'[w][c].op = "stop"

\* stop() of Worker w, called by c, returns True in this step
StopReturnsTrue(w, c) ==
  /\ call[w][c] # call'[w][c]
  /\ call'[w][c] = [op |-> "stop", pc |-> "ret", ok |-> TRUE]

\* C21: when stop() returns success the Worker's state is Stopped and
\* neither a run loop nor a heartbeat loop of the Worker is live; stop() on
\* a Stopped Worker returns success and changes nothing, the error events
\* and the bus included.
C21_StopLeavesWorkerStopped ==
  [][\A w \in Workers, c \in Callers :
       /\ StopReturnsTrue(w, c)
            => /\ state'[w] = "stopped"
               /\ \A t \in Slots : ~LoopLive(run_loop'[w][t]) /\ hb_loop'[w][t] # "live"
       /\ (EntersStop(w, c) /\ state[w] = "stopped")
            => /\ call'[w][c] = [op |-> "stop", pc |-> "ret", ok |-> TRUE]
               /\ UNCHANGED <<state, shutdown_event, pause_event, cur_task, run_loop,
                              hb_loop, last_heartbeat, total_runs, error_events, errors, bvars>>]_vars

\* C22: stop(timeout) always returns: a stop() that waits for the run loop
\* ends its wait when the timeout elapses, by cancelling the run loop, and
\* then returns, whatever the unit of work does.
C22_StopAlwaysReturns ==
  (call[TheWorker][StopCaller] = [op |-> "stop", pc |-> "wait", ok |-> FALSE])
     ~> (call[TheWorker][StopCaller].pc = "ret")

(* ------------------------- properties: shutdown and pause --------------- *)
\* C23: the shutdown signal interrupts a retry backoff wait: a run loop
\* that waits between two attempts while the shutdown signal is set makes
\* no further attempt of the unit of work and no Recovering, Running or
\* Error transition; it stays in the wait or ends.
C23_ShutdownInterruptsBackoff ==
  [][\A w \in Workers, t \in Slots :
       (shutdown_event[w] /\ run_loop[w][t].pc = "backoff")
       => /\ run_loop'[w][t].pc \in {"backoff", "done"}
          /\ run_loop'[w][t].calls <= run_loop[w][t].calls]_vars

\* a new execution of the unit of work is started by Worker w in this step
StartsExecution(w) == total_runs'[w] > total_runs[w]

\* a run loop of Worker w is blocked in the wait for the pause signal
BlockedOnPause(w) == \E t \in Slots : run_loop[w][t].pc = "pausewait"

\* C24: after pause() the run loop starts no new execution while the pause
\* signal is cleared, pause() does not touch an execution in flight, and a
\* run loop blocked by pause() is released by resume(): its pause signal
\* is set again.
C24_PauseBlocksResumeReleases ==
  /\ [][\A w \in Workers :
          /\ StartsExecution(w) => pause_event[w]
          /\ (state[w] = "running" /\ state'[w] = "paused") => run_loop'[w] = run_loop[w]]_vars
  /\ \A w \in Workers : BlockedOnPause(w) ~> pause_event[w]

(* ------------------------- properties: Supervisor ----------------------- *)
\* Worker w is due for a restart by the health-check loop
RestartDue(w) ==
  /\ sup_state = "running"
  /\ sup_config.auto_restart
  /\ w \in Agents
  /\ state[w] \in {"error", "stopped"}
  /\ restart_counts[w] < sup_config.max_restart_attempts

\* a health-check task is in the restart procedure for Worker w
InRestart(h, w) ==
  /\ health[h].pc \in {"stopping", "cooldown", "starting"}
  /\ WorkerSeq[health[h].idx] = w

\* C25: while the Supervisor is Running with auto-restart enabled, a Worker
\* that stays in Error, or Stopped, with a restart count below the maximum
\* is eventually handed to the restart procedure by the health-check loop,
\* and the procedure calls start() only after its stop() has returned.
C25_FailedWorkerEventuallyRestarted ==
  /\ \A w \in Workers :
       RestartDue(w) ~> (~RestartDue(w) \/ \E h \in 1..MaxHealth : InRestart(h, w))
  /\ [][\A w \in Workers, h \in 1..MaxHealth :
          (call'[w][HName(h)].op = "start" /\ call[w][HName(h)].op # "start")
          => /\ health[h].pc = "cooldown"
             /\ call[w][HName(h)] = NoCall]_vars

\* a restart has stopped a Worker that was in Error and is about to start it
C25_Witness ==
  \E h \in 1..MaxHealth :
    /\ health[h].pc = "cooldown"
    /\ state[WorkerSeq[health[h].idx]] = "stopped"
    /\ error_events[WorkerSeq[health[h].idx]] > 0

\* the stop() tasks of Supervisor.stop() exist and are being gathered
StopIssued == api.pc = "gather_stop"

\* C26: Supervisor.stop() ends the health-check loop before it issues
\* stop() to a Worker, stops the bus only when every Worker's stop() has
\* returned, and no Worker enters Starting after Supervisor.stop() has
\* begun (until the Supervisor is started again).
C26_StopOrder ==
  /\ [](StopIssued => \A h \in 1..MaxHealth : ~HealthLive(h))
  /\ [][/\ (bus_running /\ ~bus_running')
             => \A w \in Agents : call[w]["api"].op = "stop" /\ call[w]["api"].pc = "ret"
        /\ \A w \in Workers :
             (state'[w] = "starting" /\ state[w] # "starting") => ~sup_shutdown]_vars

\* Supervisor.stop() returns in this step
SupStopReturns == api.op = "stop" /\ api.pc = "gather_stop" /\ api'.pc = "ret"

\* C27: Supervisor.stop() reports success only if the stop() of every
\* Worker returned success, and when it returns the Supervisor's state is
\* Stopped.
C27_StopSuccessMeansAllStopped ==
  [][SupStopReturns
       => /\ sup_state' = "stopped"
          /\ api'.ok => \A w \in Agents : call[w]["api"].ok]_vars

\* a run loop of Worker w is live and nothing keeps it from beginning an
\* execution of the unit of work
CanExecute(w) ==
  /\ pause_event[w]
  /\ ~shutdown_event[w]
  /\ \E t \in Slots : LoopLive(run_loop[w][t])

\* C28: when Supervisor.pause() returns from Running the Supervisor is
\* Paused and no Worker is left with a run loop that starts new executions;
\* Supervisor.resume() from Paused returns every Paused Worker to Running
\* and the Supervisor to Running.
C28_PauseResumePropagate ==
  [][/\ (sup_state = "running" /\ sup_state' = "paused")
          => \A w \in Agents : ~CanExecute(w)'
     /\ (sup_state = "paused" /\ sup_state' = "running" /\ api' = api)
          => \A w \in Agents : state[w] = "paused" => state'[w] = "running"]_vars

\* C29: get_status() is read-only: a call leaves the Supervisor state, the
\* worker map, every Worker's state, signals, loops and counters, the
\* restart counts and the bus unchanged.
C29_GetStatusReadOnly ==
  [][sup_status' # sup_status
       => UNCHANGED <<wvars, sup_config, sup_state, sup_shutdown, agents_created,
                      restart_counts, health, cur_health, api, sys_error_events,
                      restart_attempts, forever, bvars>>]_vars

\* get_status() has returned the status of a running Supervisor whose
\* Worker is in Error
C29_Witness ==
  /\ sup_status.orchestrator_state = "running"
  /\ sup_status.event_bus_running
  /\ "w1" \in DOMAIN sup_status.agents
  /\ sup_status.agents["w1"] = "error"

\* C30: after a successful start run_forever() blocks until the shutdown
\* signal is set; once it is set stop() is eventually performed and
\* run_forever() returns with the Supervisor Stopped and every Worker
\* stopped; if start() fails run_forever() returns without blocking.
ForeverBlocksUntilSignal ==
  [][forever = "wait" /\ forever' # "wait" => sup_shutdown]_vars
ForeverReturnsStopped ==
  [][forever = "stop" /\ forever' = "done"
       => sup_state = "stopped" /\ \A w \in Agents : state[w] = "stopped"]_vars
ForeverFailedStartReturns ==
  [][forever = "start" /\ forever' # "start" /\ ~api.ok => forever' = "done"]_vars
ForeverEventuallyReturns ==
  (forever = "wait" /\ sup_shutdown) ~> (forever = "done")
C30_RunForever ==
  /\ ForeverBlocksUntilSignal
  /\ ForeverReturnsStopped
  /\ ForeverFailedStartReturns
  /\ ForeverEventuallyReturns

\* run_forever() has started the Supervisor, was woken by the signal, has
\* stopped it and returned
C30_Witness ==
  /\ forever = "done"
  /\ sup_shutdown
  /\ agents_created
  /\ sup_state = "stopped"

\* C31: from a successful start() until stop() the heartbeat loop of the
\* Worker keeps publishing heartbeats that carry the current state, whatever
\* the run loop does: start() returning True with no stop() in progress
\* leaves a live heartbeat loop
\* whose loop condition holds, that loop ends only by a stop(), and while it
\* lives a state not yet reported is eventually reported.
StartSucceeds(w) ==
  \E c \in Callers :
     /\ call[w][c] = [op |-> "start", pc |-> "hook", ok |-> FALSE]
     /\ call'[w][c] # call[w][c]
     /\ state'[w] = "running"
NoStopInFlight(w) == \A c \in Callers : call[w][c].op # "stop"
Beating(w) ==
  /\ cur_task[w] # 0
  /\ hb_loop[w][cur_task[w]] = "live"
  /\ ~shutdown_event[w]
C31_HeartbeatIndependent ==
  /\ [][\A w \in Workers : StartSucceeds(w) /\ NoStopInFlight(w)' => Beating(w)']_vars
  /\ [][\A w \in Workers : Beating(w) /\ ~Beating(w)' => state'[w] = "stopping"]_vars
  /\ \A w \in Workers :
        (Beating(w) /\ last_heartbeat[w] # state[w])
           ~> (last_heartbeat[w] = state[w] \/ ~Beating(w))

\* a heartbeat has reported the state Error of a Worker whose retries are
\* exhausted
C31_Witness ==
  /\ Beating(TheWorker)
  /\ state[TheWorker] = "error"
  /\ last_heartbeat[TheWorker] = "error"

\* C32: the ring of error records of a Worker never holds more than its
\* capacity; every failed start and every failed run appends its record at
\* the end and, when the ring was full, evicts the oldest record and keeps
\* the others in order; no other step changes the ring.
FailedStartRecorded(w) ==
  \E c \in Callers :
     /\ call[w][c] = [op |-> "start", pc |-> "hook", ok |-> FALSE]
     /\ call'[w][c] # call[w][c]
     /\ state'[w] = "error"
FailedRunRecorded(w) ==
  \E t \in Slots :
     /\ run_loop[w][t].pc = "work"
     /\ run_loop'[w][t].pc = "interval"
     /\ run_loop'[w][t].last = "exhausted"
RingAfter(old, new, kind) ==
  IF Len(old) < MaxErrorRing
  THEN new = old \o <<kind>>
  ELSE /\ Len(new) = MaxErrorRing
       /\ new[MaxErrorRing] = kind
       /\ \A i \in 1..(MaxErrorRing - 1) : new[i] = old[i + 1]
C32_ErrorRingBounded ==
  /\ [](\A w \in Workers : Len(errors[w]) <= MaxErrorRing)
  /\ [][\A w \in Workers :
          /\ FailedStartRecorded(w) => RingAfter(errors[w], errors'[w], "start_failed")
          /\ FailedRunRecorded(w) => RingAfter(errors[w], errors'[w], "run_error")
          /\ ~FailedStartRecorded(w) /\ ~FailedRunRecorded(w) => errors'[w] = errors[w]]_vars

\* three errors were recorded (three AGENT_ERROR events, none from a failed
\* stop) and the ring holds the last two
C32_Witness ==
  /\ error_events[TheWorker] = 3
  /\ errors[TheWorker] = <<"start_failed", "run_error">>

\* C33: subscribe() has no side effect on the events already queued: the
\* queue keeps its content and order, and every queued event is dispatched
\* to the subscribers it would have reached without the call.
SubscribeStep == bus_subs' # bus_subs /\ Len(bus_subs') >= Len(bus_subs)
ReachedIds(e) == {Matching(e)[i].id : i \in 1..Len(Matching(e))}
C33_SubscribeLeavesQueuedEvents ==
  [][SubscribeStep
       => /\ bus_queue' = bus_queue
          /\ \A e \in Range(bus_queue) : ReachedIds(e)' = ReachedIds(e)]_vars

\* C34: whenever the pause signal of a Worker is cleared its state is
\* Paused, so a Worker that reports Running or Recovering is never one whose
\* run loop blocks before the next execution.
C34_PauseSignalMatchesState ==
  \A w \in Workers : ~pause_event[w] => state[w] = "paused"

\* C35: whenever the state of a Worker is Running, the run loop and the
\* heartbeat loop of its latest start() are live and its shutdown signal is
\* not set, under every interleaving of start() and stop().
C35_RunningMeansLoopsLive ==
  \A w \in Workers :
     state[w] = "running"
       => /\ cur_task[w] # 0
          /\ LoopLive(run_loop[w][cur_task[w]])
          /\ hb_loop[w][cur_task[w]] = "live"
          /\ ~shutdown_event[w]

\* C36: at any time at most one run loop and at most one heartbeat loop of
\* a Worker are live, over every sequence of start(), stop() and restarts.
C36_AtMostOneLoopPair ==
  \A w \in Workers :
     /\ Cardinality({t \in Slots : LoopLive(run_loop[w][t])}) <= 1
     /\ Cardinality({t \in Slots : hb_loop[w][t] = "live"}) <= 1

\* C37: whenever the Supervisor is Running its worker map holds the whole
\* fixed set of Workers, and the start() call that sets Running has seen
\* every one of them start successfully; a start() issued after a failed
\* initialize() neither sets Running nor reports success.
StartSetsRunning == api.op = "start" /\ sup_state # "running" /\ sup_state' = "running"
C37_RunningMeansAllStarted ==
  /\ [](sup_state = "running" => Agents = FixedSet)
  /\ [](api.op = "start" /\ api.pc = "ret" /\ api.ok => Agents = FixedSet)
  /\ [][StartSetsRunning
          => \A w \in FixedSet :
                call[w]["api"] = [op |-> "start", pc |-> "ret", ok |-> TRUE]]_vars

\* C38: while the Supervisor is Paused and no start() of the Supervisor is
\* in flight, no Worker is started or restarted, no Worker enters Running
\* other than through Supervisor.resume(), and the health-check loop begins
\* no restart.
PausedStep == sup_state = "paused" /\ api.op = "none" /\ api'.op = "none"
C38_PausedSupervisorStartsNothing ==
  [][PausedStep =>
       /\ \A w \in Workers :
            (state'[w] \in {"starting", "running"} /\ state'[w] # state[w])
               => sup_state' = "running"
       /\ sup_state' = "paused"
            => \A h \in 1..MaxHealth, w \in Workers : InRestart(h, w)' => InRestart(h, w)]_vars


\* C39: with the bus running, every event accepted by publish is eventually
\* taken from the queue and dispatched, and a dispatcher waiting for the
\* callbacks of an event eventually goes on to the next one, also when a
\* callback publishes while the queue is full.
Dispatched(e) == e \in Range(bus_enq) /\ e \notin Range(bus_queue)
CallbackWaitsForRoom == \E e \in EventIds, s \in Subs : bus_inv[e][s] = "putting"
C39_NoDispatcherDeadlock ==
  /\ \A e \in EventIds : (e \in Range(bus_enq)) ~> Dispatched(e)
  /\ (bus_proc.pc = "gather") ~> (bus_proc.pc = "wait")

C39_Witness ==
  /\ CallbackWaitsForRoom
  /\ bus_proc.pc = "gather"
  /\ QueueFull

\* C40: when the dispatcher takes an event for which the filter of one
\* subscription raises, every other subscription whose types and filter
\* accept the event has its callback invoked for it in that dispatch, and
\* the dispatcher goes on: every accepted event is eventually dispatched.
TakesEvent(e) ==
  /\ bus_proc.pc = "wait"
  /\ bus_queue # <<>>
  /\ Head(bus_queue) = e
  /\ bus_queue' = Tail(bus_queue)
SomeFilterRaisesOn(e) ==
  \E i \in 1..Len(bus_subs) :
     bus_events[e].kind \in bus_subs[i].kinds /\ bus_subs[i].filter = RaisingFilter
AcceptingSubs(e) ==
  {bus_subs[i].id : i \in {j \in 1..Len(bus_subs) :
     /\ bus_events[e].kind \in bus_subs[j].kinds
     /\ bus_subs[j].filter \in {"-", bus_events[e].source}}}
OthersInvoked ==
  \A e \in EventIds :
     TakesEvent(e) /\ SomeFilterRaisesOn(e)
       => \A s \in AcceptingSubs(e) : bus_inv'[e][s] # "none"
C40_RaisingFilterSparesOthers ==
  /\ [][OthersInvoked]_vars
  /\ \A e \in EventIds : (e \in Range(bus_enq)) ~> Dispatched(e)
====
